---- MODULE Spec2Model ----
(***************************************************************************)
(* Model of the map-coordinates client: the per-peer subscription          *)
(* lifecycle of main.ts (subscribeTo / finish / maybeFinish /              *)
(* unsubscribeFrom), the presence directory of players.ts, the zone gate   *)
(* of zones.ts, the wire parsers of parsers.ts, the packet decoder of      *)
(* audio/packets.ts and the gain path of audio/playback.ts.                *)
(*                                                                         *)
(* Every action is one run-to-completion JavaScript job: the body of an    *)
(* event handler, or the code of an async read loop between two awaits.    *)
(***************************************************************************)
EXTENDS Integers, Sequences, FiniteSets, TLC

(***************************************************************************)
(* Bounds of the model.                                                    *)
(***************************************************************************)
\* subscriptions created per remote address (announce, teardown, announce again)
MaxGen == 2
\* clock advances in one behaviour
MaxAdvance == 1
\* packets one jitter state takes in a behaviour of the client
MaxFrames == 1
\* enqueues and clock steps of a starved jitter buffer (eight underruns take the
\* target lead from its minimum to its maximum)
MaxStarve == 9
\* channels of a packet given to the codec, and frames of a channel
MaxChannels == 2
MaxBlock == 2
\* enqueues and clock steps of the other feeds of the jitter buffer
MaxEnqueue == 4
MaxClock == 3

(***************************************************************************)
(* Program constants.                                                      *)
(***************************************************************************)
ARENA_WIDTH == 640
ARENA_HEIGHT == 480
STALE_TIMEOUT == 5000
SNAPSHOT_INTERVAL == 120
HEARTBEAT_INTERVAL == 2000
VERSION == 1
HEADER_BYTES == 10

\* audio/playback.ts.  Times of the audio clock are in ticks of 1/48000 s, the
\* sample period of the AudioContext: 0.15 s is 7200 ticks.
TicksPerSecond == 48000
MIN_LEAD_SECONDS == 7200
MAX_LEAD_SECONDS == 36000
LEAD_STEP_UP == 3840
LEAD_STEP_DOWN == 960
STABLE_SECONDS == 384000
SHRINK_COOLDOWN_SECONDS == 192000
\* the 0.05 s by which bufferedAhead must exceed the target lead before a shrink
ShrinkMargin == 2400
\* lastUnderrunAt of a path that never underran (-Infinity)
MinusInfinity == -1

POSITION_TRACK == "position.json"
PROFILE_TRACK == "profile.json"
AUDIO_TRACK == "audio.pcm"
SPEAKING_TRACK == "speaking.json"
ZONES_TRACK == "zones.json"

Tracks == {POSITION_TRACK, PROFILE_TRACK, AUDIO_TRACK, SPEAKING_TRACK, ZONES_TRACK}

\* the remote addresses the directory announces under the prefix
Addresses == {"pA"}
\* the remote addresses there are: a second one is announced where two peers
\* are observed together
Peers == {"pA", "pB"}
\* the key of the local Player before and after login (localPlayer.key)
LocalKey == "local"

\* absent optional number (speakingLevel?: number)
Undefined == -1
\* absent optional string (npub?: string, color?: string, picture?: string)
NoStr == "<undefined>"

(***************************************************************************)
(* JSON values as readJson() delivers them.  A field value is a record     *)
(* [t, n, s, a]: its JSON type, and its number, string or string array.    *)
(* A top-level payload carries in addition the fields of an object.        *)
(***************************************************************************)
JUndef == [t |-> "undefined", n |-> 0, s |-> "", a |-> <<>>]
JNull == [t |-> "null", n |-> 0, s |-> "", a |-> <<>>]
JNum(n) == [t |-> "number", n |-> n, s |-> "", a |-> <<>>]
JStr(s) == [t |-> "string", n |-> 0, s |-> s, a |-> <<>>]
JBool(b) == [t |-> "boolean", n |-> IF b THEN 1 ELSE 0, s |-> "", a |-> <<>>]
JArr(a) == [t |-> "array", n |-> 0, s |-> "", a |-> a]

FieldNames == {"npub", "tab", "x", "y", "color", "pubkey", "picture", "level", "zones"}

NoFields == [k \in FieldNames |-> JUndef]

\* a payload that is not an object
JTop(v) == [t |-> v.t, n |-> v.n, s |-> v.s, a |-> v.a, f |-> NoFields]

\* an object payload with the given fields (the others absent)
JObj(fields) ==
  [t |-> "object", n |-> 0, s |-> "", a |-> <<>>,
   f |-> [k \in FieldNames |-> IF k \in DOMAIN fields THEN fields[k] ELSE JUndef]]

\* JavaScript's !value for a JSON value
Falsy(v) ==
  \/ v.t \in {"undefined", "null"}
  \/ v.t = "boolean" /\ v.n = 0
  \/ v.t = "number" /\ v.n = 0
  \/ v.t = "string" /\ v.s = ""

\* typeof value === "object" (arrays are objects, null is ruled out by Falsy)
TypeofObject(v) == v.t \in {"object", "array", "null"}

\* record[name] of a payload cast to Record<string, unknown>
Field(v, name) == IF v.t = "object" THEN v.f[name] ELSE JUndef

(***************************************************************************)
(* utils.ts                                                                *)
(***************************************************************************)
Min(a, b) == IF a < b THEN a ELSE b
Max(a, b) == IF a > b THEN a ELSE b

\* clamp without its upper bound
clampBelow(value, min, max) == Max(min, value)

clamp(value, min, max) == Max(min, Min(max, value))

(***************************************************************************)
(* parsers.ts.  A parser returns [ok |-> FALSE] for undefined.             *)
(***************************************************************************)
NoMsg == [ok |-> FALSE]

parsePosition(value) ==
  IF Falsy(value) \/ ~TypeofObject(value) THEN NoMsg
  ELSE LET npub == Field(value, "npub")
           tab == Field(value, "tab")
           x == Field(value, "x")
           y == Field(value, "y")
           color == Field(value, "color")
       IN IF \/ npub.t # "string" \/ npub.s = ""
             \/ tab.t # "string" \/ tab.s = ""
             \/ x.t # "number"
             \/ y.t # "number"
          THEN NoMsg
          ELSE [ok |-> TRUE, npub |-> npub.s, tab |-> tab.s, x |-> x.n, y |-> y.n,
                color |-> IF color.t = "string" THEN color.s ELSE NoStr]

parseProfile(value) ==
  IF Falsy(value) \/ ~TypeofObject(value) THEN NoMsg
  ELSE LET npub == Field(value, "npub")
           pubkey == Field(value, "pubkey")
           picture == Field(value, "picture")
       IN IF \/ pubkey.t # "string" \/ pubkey.s = ""
             \/ npub.t # "string" \/ npub.s = ""
          THEN NoMsg
          ELSE [ok |-> TRUE, npub |-> npub.s, pubkey |-> pubkey.s,
                picture |-> IF picture.t = "string" THEN picture.s ELSE NoStr]

\* levels are in hundredths: 100 is the level 1.0
parseSpeaking(value) ==
  IF Falsy(value) \/ ~TypeofObject(value) THEN NoMsg
  ELSE LET level == Field(value, "level")
       IN IF level.t # "number" THEN NoMsg
          ELSE [ok |-> TRUE, level |-> Max(0, Min(100, level.n))]

\* the zones payload {zones: [string], ts}
parseZones(value) ==
  IF Falsy(value) \/ ~TypeofObject(value) THEN NoMsg
  ELSE LET zones == Field(value, "zones")
       IN IF zones.t # "array" THEN NoMsg
          ELSE [ok |-> TRUE, zones |-> zones.a]

(***************************************************************************)
(* zones.ts                                                                *)
(***************************************************************************)
ZONES ==
  << [id |-> "forge", rect |-> [x |-> 32, y |-> 48, width |-> 256, height |-> 256]],
     [id |-> "library", rect |-> [x |-> 352, y |-> 48, width |-> 256, height |-> 256]] >>

\* contains with the edges of the rectangle left out
containsInside(rect, x, y) ==
  /\ x > rect.x
  /\ x < rect.x + rect.width
  /\ y > rect.y
  /\ y < rect.y + rect.height

contains(rect, x, y) ==
  /\ x >= rect.x
  /\ x <= rect.x + rect.width
  /\ y >= rect.y
  /\ y <= rect.y + rect.height

RECURSIVE FilterZones(_, _, _)
FilterZones(i, x, y) ==
  IF i > Len(ZONES) THEN <<>>
  ELSE (IF contains(ZONES[i].rect, x, y) THEN <<ZONES[i].id>> ELSE <<>>)
         \o FilterZones(i + 1, x, y)

zonesForPoint(x, y) == FilterZones(1, x, y)

\* intersects that looks at the first value of a only
intersectsFirst(a, b) ==
  IF Len(a) = 0 \/ Len(b) = 0 THEN FALSE
  ELSE \E j \in 1..Len(b) : a[1] = b[j]

\* main.ts intersects: a.some((value) => b.includes(value))
intersects(a, b) ==
  IF Len(a) = 0 \/ Len(b) = 0 THEN FALSE
  ELSE \E i \in 1..Len(a) : \E j \in 1..Len(b) : a[i] = b[j]

arraysEqual(a, b) ==
  IF Len(a) # Len(b) THEN FALSE
  ELSE \A i \in 1..Len(a) : a[i] = b[i]

(***************************************************************************)
(* audio/packets.ts.  A frame is given by its place in the backing buffer  *)
(* (byteOffset), its byteLength and the header fields; the sample values   *)
(* play no part in the lifecycle.                                          *)
(***************************************************************************)
\* decodePacket that takes a frame longer than its header says
decodePacketLenient(payload) ==
  IF payload.byteLength < HEADER_BYTES THEN [r |-> "undefined"]
  ELSE IF payload.version # VERSION THEN [r |-> "undefined"]
  ELSE IF payload.byteLength < HEADER_BYTES + payload.channelCount * payload.frameCount * 4
       THEN [r |-> "undefined"]
  ELSE IF (payload.byteOffset + HEADER_BYTES) % 4 # 0 THEN [r |-> "throw"]
  ELSE [r |-> "ok", channelCount |-> payload.channelCount, sampleRate |-> payload.sampleRate,
        frameCount |-> payload.frameCount]

\* "undefined", "throw" (the RangeError of a misaligned Float32Array view) or "ok"
decodePacket(payload) ==
  IF payload.byteLength < HEADER_BYTES THEN [r |-> "undefined"]
  ELSE IF payload.version # VERSION THEN [r |-> "undefined"]
  ELSE IF payload.byteLength # HEADER_BYTES + payload.channelCount * payload.frameCount * 4
       THEN [r |-> "undefined"]
  ELSE IF (payload.byteOffset + HEADER_BYTES) % 4 # 0 THEN [r |-> "throw"]
  ELSE [r |-> "ok", channelCount |-> payload.channelCount, sampleRate |-> payload.sampleRate,
        frameCount |-> payload.frameCount]

(***************************************************************************)
(* The state of the client.                                                *)
(***************************************************************************)
VARIABLES
  players,              \* Map<string, Player>: the remote entries, by address
  localPlayer,          \* the local Player: x, y, zones
  started,              \* players holds the local Player (startSession has run)
  remoteSubscriptions,  \* Map<string, () => void>: address -> generation of its finish, 0 for none
  subs,                 \* the closure of every subscribeTo call: tracks, xxxActive flags, closed
  remotes,              \* AudioPlayback.#remotes: address -> RemoteState
  context,              \* AudioPlayback.#context exists
  now,                  \* performance.now()
  offered,              \* per address, the tracks its broadcast lets a subscriber open
  announcesLeft,        \* per address, the subscriptions the directory may still start
  currentTime,          \* AudioContext.currentTime, in ticks
  feed,                 \* what a behaviour of the jitter buffer is fed with
  codec,                \* the arguments and results of the packet codec
  captureMode,          \* "mic" | "tone" | undefined
  audioCapture,         \* the AudioCapture the page holds: its index in captures, 0 for undefined
  captures,             \* every AudioCapture constructed so far, in order of construction
  currentSpeakingLevel, \* the level of the last onLevel callback
  unloaded,             \* beforeunload has been delivered
  subscribers,          \* positionSubscribers, ..., zonesSubscribers: per track name, a set of tracks
  tracks,               \* every Moq.Track a subscriber has requested, in order of request
  serving,              \* the loop of runPublishLoop waits for a request
  lastSnapshotAt,       \* when publishState last sent
  lastSentX,            \* the position publishState last sent
  lastSentY,
  published,            \* the last send of publishState: when, and whether it was forced
  samplesHandled,       \* the calls of handleCapturedSamples so far
  avatarCache,          \* Map<string, Promise>: per URL, the state of its load
  avatarCallbacks,      \* the .then() callbacks of loads that are pending: <<player key, URL>>
  query                 \* the arguments and the result of a zone function called on its own

vars ==
  <<players, localPlayer, started, remoteSubscriptions, subs, remotes, context, now,
    offered, announcesLeft, currentTime, feed, codec,
    captureMode, audioCapture, captures, currentSpeakingLevel, unloaded,
    subscribers, tracks, serving, lastSnapshotAt, lastSentX, lastSentY, published,
    samplesHandled,
    avatarCache, avatarCallbacks, query>>

\* what no step of the client changes: the audio clock stands still while the
\* client is observed, and the feed and the codec are used on their own
\* the capture side of the page
capture == <<captureMode, audioCapture, captures, currentSpeakingLevel, unloaded>>

\* the publish side of the page
publish ==
  <<subscribers, tracks, serving, lastSnapshotAt, lastSentX, lastSentY, published,
    samplesHandled>>

\* the avatar loads
avatars == <<avatarCache, avatarCallbacks>>

\* what no step of a subscription changes
apart == <<currentTime, feed, codec, query, capture>>

aside == <<apart, publish>>

Gens == 1..MaxGen
Slots == Peers \X Gens

\* the paths the directory announces under the prefix: those of the peers and,
\* once it is published, the page's own
Paths == Peers \cup {LocalKey}

\* the closure variables of a subscribeTo call that has not happened: the tracks
\* that were opened, the xxxActive flags that are true, closed.  Three more fields
\* record what finish has done: the tracks it called close() on, how often its
\* body ran, and whether it was called again after that (and returned at once).
NoSub ==
  [opened |-> {}, active |-> {}, closed |-> FALSE, tracksClosed |-> {},
   teardowns |-> 0, repeated |-> FALSE]

\* the program state the handlers read and write, as one value
World ==
  [players |-> players, localPlayer |-> localPlayer, started |-> started,
   remoteSubscriptions |-> remoteSubscriptions, subs |-> subs, remotes |-> remotes,
   context |-> context, now |-> now, currentTime |-> currentTime,
   avatarCache |-> avatarCache, avatarCallbacks |-> avatarCallbacks]

Commit(w) ==
  /\ players' = w.players
  /\ localPlayer' = w.localPlayer
  /\ started' = w.started
  /\ remoteSubscriptions' = w.remoteSubscriptions
  /\ subs' = w.subs
  /\ remotes' = w.remotes
  /\ context' = w.context
  /\ avatarCache' = w.avatarCache
  /\ avatarCallbacks' = w.avatarCallbacks

\* f without the key k
Without(f, k) == [x \in (DOMAIN f) \ {k} |-> f[x]]
\* f with k set to v
With(f, k, v) == [x \in (DOMAIN f) \cup {k} |-> IF x = k THEN v ELSE f[x]]

(***************************************************************************)
(* audio/playback.ts: the gain path of a peer.                             *)
(***************************************************************************)
\* setVolume that sets the gain of every path
setVolumeAll(w, path, value) ==
  [w EXCEPT !.remotes = [key \in DOMAIN w.remotes |-> [w.remotes[key] EXCEPT !.gain = value]]]

setVolume(w, path, value) ==
  IF path \notin DOMAIN w.remotes THEN w
  ELSE [w EXCEPT !.remotes[path].gain = value]

\* close that releases every path
closeEvery(w, path) ==
  IF path \notin DOMAIN w.remotes THEN w
  ELSE [w EXCEPT !.remotes = [key \in {} |-> 0]]

close(w, path) ==
  IF path \notin DOMAIN w.remotes THEN w
  ELSE [w EXCEPT !.remotes = Without(w.remotes, path)]

\* createRemote with the cursor at the origin of the clock
createRemoteAtZero(w, path) ==
  [w EXCEPT !.remotes =
     With(w.remotes, path,
          [gain |-> 1,
           nextTime |-> 0,
           stats |-> [framesDecoded |-> 0, bufferedAhead |-> 0, underruns |-> 0,
                      targetLead |-> MIN_LEAD_SECONDS],
           targetLead |-> MIN_LEAD_SECONDS,
           lastUnderrunAt |-> MinusInfinity,
           lastAdjustmentAt |-> w.currentTime,
           startAt |-> Undefined, endAt |-> Undefined, enqueuedAt |-> Undefined])]

\* RemoteState.  Three fields are not fields of the code: startAt is the argument
\* of the last source.start() on the path, endAt the time its buffer ends
\* (startAt + buffer.duration) and enqueuedAt the context.currentTime of the
\* enqueue that started it; all are Undefined before the first.
createRemote(w, path) ==
  [w EXCEPT !.remotes =
     With(w.remotes, path,
          [gain |-> 1,
           nextTime |-> w.currentTime + MIN_LEAD_SECONDS,
           stats |-> [framesDecoded |-> 0, bufferedAhead |-> 0, underruns |-> 0,
                      targetLead |-> MIN_LEAD_SECONDS],
           targetLead |-> MIN_LEAD_SECONDS,
           lastUnderrunAt |-> MinusInfinity,
           lastAdjustmentAt |-> w.currentTime,
           startAt |-> Undefined, endAt |-> Undefined, enqueuedAt |-> Undefined])]

\* createBuffer rejects a buffer of no channels or no frames (NotSupportedError)
enqueueThrows(w, packet) ==
  w.context /\ (packet.channelCount = 0 \/ packet.frameCount = 0)

\* buffer.duration, in ticks: frameCount / sampleRate seconds, the whole seconds
\* and the rest converted apart (the product of a long packet's frame count and
\* the tick rate exceeds 32 bits); the rates of the packets are whole kHz
duration(packet) ==
  (packet.frameCount \div packet.sampleRate) * TicksPerSecond
    + ((packet.frameCount % packet.sampleRate) * (TicksPerSecond \div 1000))
        \div (packet.sampleRate \div 1000)

\* time - t > d, for a t that may be -Infinity
Since(time, t, d) == t = MinusInfinity \/ time - t > d

\* underrun without the bound of the target lead
underrunUncapped(remote, time) ==
  IF remote.nextTime < time
  THEN [remote EXCEPT !.stats.underruns = @ + 1,
                      !.lastUnderrunAt = time,
                      !.targetLead = @ + LEAD_STEP_UP,
                      !.lastAdjustmentAt = time,
                      !.nextTime = time + remote.targetLead + LEAD_STEP_UP]
  ELSE remote

\* enqueue: if (remote.nextTime < now) { ... }
underrun(remote, time) ==
  IF remote.nextTime < time
  THEN LET lead == Min(MAX_LEAD_SECONDS, remote.targetLead + LEAD_STEP_UP)
       IN [remote EXCEPT !.stats.underruns = @ + 1,
                         !.lastUnderrunAt = time,
                         !.targetLead = lead,
                         !.lastAdjustmentAt = time,
                         !.nextTime = time + lead]
  ELSE remote

\* schedule that starts every packet at the clock plus the target lead
scheduleAtLead(remote, time, packet) ==
  LET startAt == time + remote.targetLead
      nextTime == startAt + duration(packet)
  IN [remote EXCEPT !.startAt = startAt,
                    !.endAt = startAt + duration(packet),
                    !.enqueuedAt = time,
                    !.nextTime = nextTime,
                    !.stats.framesDecoded = @ + packet.frameCount,
                    !.stats.bufferedAhead = Max(0, nextTime - time),
                    !.stats.targetLead = remote.targetLead]

\* schedule without the copy of the target lead into the stats
scheduleStaleStats(remote, time, packet) ==
  LET startAt == Max(remote.nextTime, time + remote.targetLead)
      nextTime == startAt + duration(packet)
  IN [remote EXCEPT !.startAt = startAt,
                    !.endAt = startAt + duration(packet),
                    !.enqueuedAt = time,
                    !.nextTime = nextTime,
                    !.stats.framesDecoded = @ + packet.frameCount,
                    !.stats.bufferedAhead = Max(0, nextTime - time)]

\* enqueue: startAt, source.start(startAt), nextTime and the stats
schedule(remote, time, packet) ==
  LET startAt == Max(remote.nextTime, time + remote.targetLead)
      nextTime == startAt + duration(packet)
  IN [remote EXCEPT !.startAt = startAt,
                    !.endAt = startAt + duration(packet),
                    !.enqueuedAt = time,
                    !.nextTime = nextTime,
                    !.stats.framesDecoded = @ + packet.frameCount,
                    !.stats.bufferedAhead = Max(0, nextTime - time),
                    !.stats.targetLead = remote.targetLead]

\* shrink that always moves the cursor to the clock plus the new target lead
shrinkResettingCursor(remote, time) ==
  IF /\ remote.targetLead > MIN_LEAD_SECONDS
     /\ remote.stats.underruns > 0
     /\ Since(time, remote.lastUnderrunAt, STABLE_SECONDS)
     /\ time - remote.lastAdjustmentAt > SHRINK_COOLDOWN_SECONDS
     /\ remote.stats.bufferedAhead > remote.targetLead + ShrinkMargin
  THEN LET lead == Max(MIN_LEAD_SECONDS, remote.targetLead - LEAD_STEP_DOWN)
       IN [remote EXCEPT !.targetLead = lead,
                         !.lastAdjustmentAt = time,
                         !.stats.targetLead = lead,
                         !.nextTime = time + lead]
  ELSE remote

\* shrink without the cooldown since the last adjustment
shrinkNoCooldown(remote, time) ==
  IF /\ remote.targetLead > MIN_LEAD_SECONDS
     /\ remote.stats.underruns > 0
     /\ Since(time, remote.lastUnderrunAt, STABLE_SECONDS)
     /\ remote.stats.bufferedAhead > remote.targetLead + ShrinkMargin
  THEN LET lead == Max(MIN_LEAD_SECONDS, remote.targetLead - LEAD_STEP_DOWN)
       IN [remote EXCEPT !.targetLead = lead,
                         !.lastAdjustmentAt = time,
                         !.stats.targetLead = lead,
                         !.nextTime = IF @ < time + lead THEN time + lead ELSE @]
  ELSE remote

\* enqueue: the shrink of the target lead after scheduling
shrink(remote, time) ==
  IF /\ remote.targetLead > MIN_LEAD_SECONDS
     /\ remote.stats.underruns > 0
     /\ Since(time, remote.lastUnderrunAt, STABLE_SECONDS)
     /\ time - remote.lastAdjustmentAt > SHRINK_COOLDOWN_SECONDS
     /\ remote.stats.bufferedAhead > remote.targetLead + ShrinkMargin
  THEN LET lead == Max(MIN_LEAD_SECONDS, remote.targetLead - LEAD_STEP_DOWN)
       IN [remote EXCEPT !.targetLead = lead,
                         !.lastAdjustmentAt = time,
                         !.stats.targetLead = lead,
                         !.nextTime = IF @ < time + lead THEN time + lead ELSE @]
  ELSE remote

\* the caller has seen that createBuffer does not throw (enqueueThrows)
enqueue(w, path, packet) ==
  IF ~w.context THEN w
  ELSE LET w1 == IF path \in DOMAIN w.remotes THEN w ELSE createRemote(w, path)
           time == w.currentTime
       IN [w1 EXCEPT !.remotes[path] =
             shrink(schedule(underrun(w1.remotes[path], time), time, packet), time)]

\* the clock of a new AudioContext starts at 0
resume(w) == IF w.context THEN w ELSE [w EXCEPT !.context = TRUE, !.currentTime = 0]

RECURSIVE CloseOver(_, _)
CloseOver(w, keys) ==
  IF keys = {} THEN w
  ELSE LET key == CHOOSE k \in keys : TRUE
       IN CloseOver(close(w, key), keys \ {key})

shutdown(w) == [CloseOver(w, DOMAIN w.remotes) EXCEPT !.context = FALSE]

(***************************************************************************)
(* players.ts                                                              *)
(***************************************************************************)
\* ensurePlayer that takes the npub and the color it is given
ensurePlayerOverwriting(w, path, npub, color) ==
  IF path \notin DOMAIN w.players
  THEN [w EXCEPT !.players =
          With(w.players, path,
               [npub |-> npub, x |-> w.localPlayer.x, y |-> w.localPlayer.y,
                color |-> IF color # NoStr THEN color ELSE "random",
                lastSeen |-> w.now, isLocal |-> FALSE,
                profile |-> NoStr, picture |-> NoStr,
                imageUrl |-> NoStr, image |-> NoStr,
                zones |-> <<>>, speakingLevel |-> Undefined])]
  ELSE [w EXCEPT !.players[path].npub = npub,
                 !.players[path].color = IF color # NoStr THEN color ELSE @]

ensurePlayer(w, path, npub, color) ==
  IF path \notin DOMAIN w.players
  THEN [w EXCEPT !.players =
          With(w.players, path,
               [npub |-> npub, x |-> w.localPlayer.x, y |-> w.localPlayer.y,
                color |-> IF color # NoStr THEN color ELSE "random",
                lastSeen |-> w.now, isLocal |-> FALSE,
                profile |-> NoStr, picture |-> NoStr,
                imageUrl |-> NoStr, image |-> NoStr,
                zones |-> <<>>, speakingLevel |-> Undefined])]
  ELSE LET player == w.players[path]
           p1 == IF player.npub \in {NoStr, ""} /\ npub \notin {NoStr, ""}
                 THEN [player EXCEPT !.npub = npub] ELSE player
           p2 == IF color \notin {NoStr, ""} /\ p1.profile = NoStr
                 THEN [p1 EXCEPT !.color = color] ELSE p1
       IN [w EXCEPT !.players[path] = p2]

(***************************************************************************)
(* avatars.ts.  A Player is named by its key in the players map; an image  *)
(* by the URL it was loaded from.  avatarCache[url] is [state, loads]: the *)
(* state of the promise of loadAvatar(url), which resolves with the image  *)
(* ("loaded") or with undefined ("failed"), and the calls of loadAvatar.   *)
(***************************************************************************)
PlayerAt(w, key) == IF key = LocalKey THEN w.localPlayer ELSE w.players[key]

SetPlayer(w, key, player) ==
  IF key = LocalKey THEN [w EXCEPT !.localPlayer = player]
  ELSE [w EXCEPT !.players[key] = player]

\* the callback of pending.then(): lines 16-19
avatarThen(w, key, url) ==
  IF key # LocalKey /\ key \notin DOMAIN w.players THEN w
  ELSE IF PlayerAt(w, key).imageUrl # url THEN w
  ELSE SetPlayer(w, key,
         [PlayerAt(w, key) EXCEPT
            !.image = IF w.avatarCache[url].state = "loaded" THEN url ELSE NoStr])

\* queueAvatarLoad(player, url): a callback on a promise that is settled runs
\* before anything else does
queueAvatarLoad(w, key, url) ==
  IF url \in {NoStr, ""} \/ url = PlayerAt(w, key).imageUrl THEN w
  ELSE LET w1 == SetPlayer(w, key, [PlayerAt(w, key) EXCEPT !.imageUrl = url])
       IN IF url \notin DOMAIN w1.avatarCache
          THEN [w1 EXCEPT
                  !.avatarCache = With(@, url, [state |-> "pending", loads |-> 1]),
                  !.avatarCallbacks = @ \cup {<<key, url>>}]
          ELSE IF w1.avatarCache[url].state = "pending"
          THEN [w1 EXCEPT !.avatarCallbacks = @ \cup {<<key, url>>}]
          ELSE avatarThen(w1, key, url)

RECURSIVE ThenOver(_, _, _)
ThenOver(w, keys, url) ==
  IF keys = {} THEN w
  ELSE LET key == CHOOSE k \in keys : TRUE
       IN ThenOver(avatarThen(w, key, url), keys \ {key}, url)

\* image.onload (loaded) or image.onerror of the load of url: the promise
\* resolves and its callbacks run
avatarSettled(w, url, loaded) ==
  LET w1 == [w EXCEPT !.avatarCache[url].state = IF loaded THEN "loaded" ELSE "failed",
                      !.avatarCallbacks = {cb \in @ : cb[2] # url}]
  IN ThenOver(w1, {cb[1] : cb \in {c \in w.avatarCallbacks : c[2] = url}}, url)

(***************************************************************************)
(* main.ts: the mix                                                        *)
(***************************************************************************)
RECURSIVE MixOver(_, _)
MixOver(w, paths) ==
  IF paths = {} THEN w
  ELSE LET path == CHOOSE p \in paths : TRUE
           audible == intersects(w.localPlayer.zones, w.players[path].zones)
       IN MixOver(setVolume(w, path, IF audible THEN 1 ELSE 0), paths \ {path})

\* the local Player is skipped (isLocal); players holds the remote entries
updateAudioMix(w) == MixOver(w, DOMAIN w.players)

(***************************************************************************)
(* main.ts: teardown of one subscription (the closures of subscribeTo)     *)
(***************************************************************************)
\* finish without its closed flag
finishUnguarded(w, path, g) ==
  LET sub == w.subs[<<path, g>>]
      w1 == [w EXCEPT
               !.subs[<<path, g>>] =
                  [sub EXCEPT !.closed = TRUE,
                              !.tracksClosed = sub.opened,
                              !.teardowns = @ + 1],
               !.remoteSubscriptions[path] = 0]
      w2 == close(w1, path)
      w3 == IF path \in DOMAIN w2.players
            THEN [w2 EXCEPT !.players = Without(w2.players, path)]
            ELSE w2
  IN updateAudioMix(w3)

finish(w, path, g) ==
  LET sub == w.subs[<<path, g>>]
  IN IF sub.closed THEN [w EXCEPT !.subs[<<path, g>>].repeated = TRUE]
     ELSE LET w1 == [w EXCEPT
                       !.subs[<<path, g>>] =
                          [sub EXCEPT !.closed = TRUE,
                                      !.tracksClosed = sub.opened,
                                      !.teardowns = @ + 1],
                       !.remoteSubscriptions[path] = 0]
              w2 == close(w1, path)
              w3 == IF path \in DOMAIN w2.players
                    THEN [w2 EXCEPT !.players = Without(w2.players, path)]
                    ELSE w2
          IN updateAudioMix(w3)

\* maybeFinish that finishes as soon as one opened channel is inactive
maybeFinishAnyInactive(w, path, g) ==
  IF w.subs[<<path, g>>].active # w.subs[<<path, g>>].opened THEN finish(w, path, g) ELSE w

maybeFinish(w, path, g) ==
  IF w.subs[<<path, g>>].active = {} THEN finish(w, path, g) ELSE w

unsubscribeFrom(w, path) ==
  IF w.remoteSubscriptions[path] = 0 THEN w
  ELSE finish(w, path, w.remoteSubscriptions[path])

\* pruneStale that does not look at isLocal
isLocalIgnored(key) == FALSE

\* player.isLocal
isLocal(key) == key = LocalKey

\* the Player under a key of the players map: the local Player is in the map
\* once startSession has run
PlayerKeys(w) == DOMAIN w.players \cup (IF w.started THEN {LocalKey} ELSE {})

\* players.delete(key); remoteSubscriptions.get(key)?.()
PruneOne(w, key) ==
  IF key = LocalKey THEN [w EXCEPT !.started = FALSE]
  ELSE LET d == [w EXCEPT !.players = Without(w.players, key)]
       IN IF d.remoteSubscriptions[key] = 0 THEN d
          ELSE finish(d, key, d.remoteSubscriptions[key])

RECURSIVE PruneOver(_, _, _, _)
PruneOver(w, keys, time, staleTimeout) ==
  IF keys = {} THEN w
  ELSE LET key == CHOOSE k \in keys : TRUE
           present == key \in PlayerKeys(w)
           lastSeen == IF key = LocalKey THEN w.localPlayer.lastSeen
                       ELSE w.players[key].lastSeen
           w1 == IF ~present \/ isLocal(key) THEN w
                 ELSE IF time - lastSeen > staleTimeout THEN PruneOne(w, key)
                 ELSE w
       IN PruneOver(w1, keys \ {key}, time, staleTimeout)

pruneStale(w, time, staleTimeout) == PruneOver(w, PlayerKeys(w), time, staleTimeout)

(***************************************************************************)
(* main.ts: subscribeTo.  The tracks a subscribe() call throws for are     *)
(* those the address does not offer.                                       *)
(***************************************************************************)
\* selfBroadcastPaths without its members
selfBroadcastPathsEmpty(w) == {}

\* selfBroadcastPaths: startSession adds the page's own path, which is the key
\* of the local Player from then on, where it puts the local Player into players
selfBroadcastPaths(w) == IF w.started THEN {LocalKey} ELSE {}

\* the closure a new subscribeTo call for path would get
NextGen(w, path) == Cardinality({g \in Gens : w.subs[<<path, g>>].opened # {}}) + 1

\* subscribeTo that goes on when the position track cannot be opened
subscribeToWithoutPosition(w, path, canOpen) ==
  IF w.remoteSubscriptions[path] # 0 THEN w
  ELSE LET g == NextGen(w, path)
           opened == (canOpen \cap Tracks) \cup {POSITION_TRACK}
           w1 == [w EXCEPT
                    !.subs[<<path, g>>] = [NoSub EXCEPT !.opened = opened, !.active = opened],
                    !.remoteSubscriptions[path] = g]
           w2 == IF AUDIO_TRACK \in opened THEN resume(w1) ELSE w1
       IN updateAudioMix(setVolume(w2, path, 0))

\* subscribeTo without its look at remoteSubscriptions
subscribeToAgain(w, path, canOpen) ==
  IF POSITION_TRACK \notin canOpen THEN w
  ELSE LET g == NextGen(w, path)
           opened == canOpen \cap Tracks
           w1 == [w EXCEPT
                    !.subs[<<path, g>>] = [NoSub EXCEPT !.opened = opened, !.active = opened],
                    !.remoteSubscriptions[path] = g]
           w2 == IF AUDIO_TRACK \in opened THEN resume(w1) ELSE w1
       IN updateAudioMix(setVolume(w2, path, 0))

subscribeTo(w, path, canOpen) ==
  IF w.remoteSubscriptions[path] # 0 THEN w
  ELSE IF path \in selfBroadcastPaths(w) THEN w
  ELSE IF POSITION_TRACK \notin canOpen THEN w
  ELSE LET g == NextGen(w, path)
           opened == canOpen \cap Tracks
           w1 == [w EXCEPT
                    !.subs[<<path, g>>] = [NoSub EXCEPT !.opened = opened, !.active = opened],
                    !.remoteSubscriptions[path] = g]
           \* the audio loop runs up to its first await: resume() creates the context
           w2 == IF AUDIO_TRACK \in opened THEN resume(w1) ELSE w1
       IN updateAudioMix(setVolume(w2, path, 0))

(***************************************************************************)
(* main.ts: the read loops of one subscription.  xxxMessage is the loop    *)
(* body for one payload, xxxFinally the .finally() of the loop.            *)
(***************************************************************************)
Deactivate(w, path, g, track) == [w EXCEPT !.subs[<<path, g>>].active = @ \ {track}]

positionFinally(w, path, g) == maybeFinish(Deactivate(w, path, g, POSITION_TRACK), path, g)

profileFinally(w, path, g) == maybeFinish(Deactivate(w, path, g, PROFILE_TRACK), path, g)

\* the audio loop's .finally() without its maybeFinish()
audioFinallyWithoutFanIn(w, path, g) == Deactivate(w, path, g, AUDIO_TRACK)

audioFinally(w, path, g) == maybeFinish(Deactivate(w, path, g, AUDIO_TRACK), path, g)

zonesFinally(w, path, g) ==
  LET w1 == Deactivate(w, path, g, ZONES_TRACK)
      w2 == IF path \in DOMAIN w1.players
            THEN [w1 EXCEPT !.players[path].zones = <<>>] ELSE w1
  IN maybeFinish(updateAudioMix(w2), path, g)

speakingFinally(w, path, g) ==
  LET w1 == Deactivate(w, path, g, SPEAKING_TRACK)
      w2 == IF path \in DOMAIN w1.players
            THEN [w1 EXCEPT !.players[path].speakingLevel = 0] ELSE w1
  IN maybeFinish(w2, path, g)

trackFinally(w, path, g, track) ==
  CASE track = POSITION_TRACK -> positionFinally(w, path, g)
    [] track = PROFILE_TRACK -> profileFinally(w, path, g)
    [] track = AUDIO_TRACK -> audioFinally(w, path, g)
    [] track = ZONES_TRACK -> zonesFinally(w, path, g)
    [] track = SPEAKING_TRACK -> speakingFinally(w, path, g)

positionMessage(w, path, g, payload) ==
  IF Falsy(payload) THEN positionFinally(w, path, g)
  ELSE LET msg == parsePosition(payload)
       IN IF ~msg.ok THEN w
          ELSE LET w1 == ensurePlayer(w, path, msg.npub, msg.color)
               IN [w1 EXCEPT !.players[path].x = clamp(msg.x, 0, ARENA_WIDTH),
                             !.players[path].y = clamp(msg.y, 0, ARENA_HEIGHT),
                             !.players[path].lastSeen = w.now]

profileMessage(w, path, g, payload) ==
  IF Falsy(payload) THEN profileFinally(w, path, g)
  ELSE LET profile == parseProfile(payload)
       IN IF ~profile.ok THEN w
          ELSE LET w1 == ensurePlayer(w, path, profile.npub, NoStr)
                   w2 == [w1 EXCEPT !.players[path].profile = profile.pubkey,
                                    !.players[path].picture = profile.picture,
                                    !.players[path].npub = profile.npub]
               IN queueAvatarLoad(w2, path, profile.picture)

audioMessage(w, path, g, payload) ==
  LET packet == decodePacket(payload)
  IN IF packet.r = "throw" THEN audioFinally(w, path, g)
     ELSE IF packet.r = "undefined" THEN w
     ELSE IF enqueueThrows(w, packet) THEN audioFinally(w, path, g)
     ELSE enqueue(w, path, packet)

zonesMessage(w, path, g, payload) ==
  IF Falsy(payload) THEN zonesFinally(w, path, g)
  ELSE LET zones == parseZones(payload)
       IN IF ~zones.ok THEN w
          ELSE LET w1 == ensurePlayer(w, path, NoStr, NoStr)
               IN updateAudioMix([w1 EXCEPT !.players[path].zones = zones.zones])

speakingMessage(w, path, g, payload) ==
  IF Falsy(payload) THEN speakingFinally(w, path, g)
  ELSE LET level == parseSpeaking(payload)
       IN IF ~level.ok THEN w
          ELSE LET w1 == ensurePlayer(w, path, NoStr, NoStr)
               IN [w1 EXCEPT !.players[path].speakingLevel = level.level]

(***************************************************************************)
(* main.ts: the local player                                               *)
(***************************************************************************)
updateLocalZones(w, force) ==
  LET next == zonesForPoint(w.localPlayer.x, w.localPlayer.y)
  IN IF ~force /\ arraysEqual(next, w.localPlayer.zones) THEN w
     ELSE updateAudioMix([w EXCEPT !.localPlayer.zones = next])

\* lines 706-710: the local player after a frame with the keys held giving the
\* direction (dx, dy), each -1, 0 or 1, and SPEED * dt / length being m pixels
movedBy(lp, dx, dy, m, time) ==
  IF dx = 0 /\ dy = 0 THEN lp
  ELSE [lp EXCEPT !.x = clamp(@ + dx * m, 0, ARENA_WIDTH),
                  !.y = clamp(@ + dy * m, 0, ARENA_HEIGHT),
                  !.lastSeen = time]

updateLocalPosition(w, dx, dy, m) ==
  IF ~w.started THEN w
  ELSE updateLocalZones([w EXCEPT !.localPlayer = movedBy(@, dx, dy, m, w.now)], FALSE)


(***************************************************************************)
(* main.ts: the publish side.  A track is [name, closed, error, frame]:    *)
(* frame is the last frame written to it.                                  *)
(***************************************************************************)
NoFrame == [kind |-> "none"]

Abs(n) == IF n < 0 THEN -n ELSE n

PublishWorld ==
  [subscribers |-> subscribers, tracks |-> tracks, serving |-> serving,
   lastSnapshotAt |-> lastSnapshotAt, lastSentX |-> lastSentX, lastSentY |-> lastSentY,
   published |-> published, samplesHandled |-> samplesHandled]

\* for (const track of [...set]) try { track.writeJson(frame) } catch { set.delete(track) }
\* writeJson throws for a track that is closed
WriteAll(pw, name, frame) ==
  [pw EXCEPT
     !.tracks = [t \in DOMAIN @ |->
                   IF t \in pw.subscribers[name] /\ ~@[t].closed
                   THEN [@[t] EXCEPT !.frame = frame] ELSE @[t]],
     !.subscribers[name] = {t \in @ : ~pw.tracks[t].closed}]

\* serializeLocal(): the positions of the model are whole numbers
serializeLocal(lp) == [kind |-> "position", x |-> lp.x, y |-> lp.y]

\* publishState with the two intervals exchanged
publishStateSwapped(pw, lp, started_, time, force) ==
  IF ~started_ \/ pw.subscribers[POSITION_TRACK] = {} THEN pw
  ELSE LET diffX == Abs(lp.x - pw.lastSentX)
           diffY == Abs(lp.y - pw.lastSentY)
           idle == diffX < 1 /\ diffY < 1
           interval == IF idle THEN SNAPSHOT_INTERVAL ELSE HEARTBEAT_INTERVAL
       IN IF ~force /\ time - pw.lastSnapshotAt < interval THEN pw
          ELSE WriteAll([pw EXCEPT !.lastSnapshotAt = time,
                                   !.lastSentX = lp.x,
                                   !.lastSentY = lp.y,
                                   !.published = [at |-> time, force |-> force,
                                                  seq |-> IF @.seq = 1 THEN 2 ELSE 1]],
                        POSITION_TRACK, serializeLocal(lp))

\* publishState(force): lp is localPlayer, started_ stands for broadcast and
\* currentProfile, time for performance.now()
publishState(pw, lp, started_, time, force) ==
  IF ~started_ \/ pw.subscribers[POSITION_TRACK] = {} THEN pw
  ELSE LET diffX == Abs(lp.x - pw.lastSentX)
           diffY == Abs(lp.y - pw.lastSentY)
           idle == diffX < 1 /\ diffY < 1
           interval == IF idle THEN HEARTBEAT_INTERVAL ELSE SNAPSHOT_INTERVAL
       IN IF ~force /\ time - pw.lastSnapshotAt < interval THEN pw
          ELSE WriteAll([pw EXCEPT !.lastSnapshotAt = time,
                                   !.lastSentX = lp.x,
                                   !.lastSentY = lp.y,
                                   !.published = [at |-> time, force |-> force,
                                                  seq |-> IF @.seq = 1 THEN 2 ELSE 1]],
                        POSITION_TRACK, serializeLocal(lp))

\* broadcastZonesUpdate()
broadcastZonesUpdate(pw, zones) ==
  WriteAll(pw, ZONES_TRACK, [kind |-> "zones", zones |-> zones])

\* broadcastSpeakingLevel()
broadcastSpeakingLevel(pw, level) ==
  WriteAll(pw, SPEAKING_TRACK, [kind |-> "speaking", level |-> level])

\* updateLocalZones(force), its writes: before is localPlayer.zones
publishZones(pw, before, lp, force) ==
  IF ~force /\ arraysEqual(zonesForPoint(lp.x, lp.y), before) THEN pw
  ELSE broadcastZonesUpdate(pw, zonesForPoint(lp.x, lp.y))

NewTrack(name) == [name |-> name, closed |-> FALSE, error |-> "", frame |-> NoFrame]

\* one round of the loop of runPublishLoop that adds a track of unknown name to
\* audioSubscribers
servedLeniently(pw, name, lp, level) ==
  LET t == Len(pw.tracks) + 1
  IN [pw EXCEPT !.tracks = Append(@, NewTrack(name)),
                !.subscribers[AUDIO_TRACK] = @ \cup {t}]

\* one round of the loop of runPublishLoop: requested() gives a track of that name
served(pw, name, lp, level) ==
  LET t == Len(pw.tracks) + 1
      asked == [pw EXCEPT !.tracks = Append(@, NewTrack(name))]
      added == IF name \in Tracks
               THEN [asked EXCEPT !.subscribers[name] = @ \cup {t}] ELSE asked
  IN IF name = POSITION_TRACK
     THEN [added EXCEPT !.tracks[t].frame = serializeLocal(lp)]
     ELSE IF name = PROFILE_TRACK
     THEN [added EXCEPT !.tracks[t].frame = [kind |-> "profile"]]
     ELSE IF name = ZONES_TRACK
     THEN [added EXCEPT !.tracks[t].frame = [kind |-> "zones", zones |-> lp.zones]]
     ELSE IF name = AUDIO_TRACK THEN added
     ELSE IF name = SPEAKING_TRACK THEN broadcastSpeakingLevel(added, level)
     ELSE [added EXCEPT !.tracks[t].closed = TRUE,
                        !.tracks[t].error = "unsupported track " \o name]

\* track.closed settles: .finally() takes the track out of its set
trackClosed(pw, t) ==
  IF pw.tracks[t].name \in Tracks
  THEN [pw EXCEPT !.subscribers[pw.tracks[t].name] = @ \ {t}] ELSE pw

CommitPublish(pw) ==
  /\ subscribers' = pw.subscribers
  /\ tracks' = pw.tracks
  /\ serving' = pw.serving
  /\ lastSnapshotAt' = pw.lastSnapshotAt
  /\ lastSentX' = pw.lastSentX
  /\ lastSentY' = pw.lastSentY
  /\ published' = pw.published
  /\ samplesHandled' = pw.samplesHandled

(***************************************************************************)
(* The inputs the environment draws from.                                  *)
(***************************************************************************)
\* payloads that are no message of any channel
JunkPayloads ==
  { JTop(JNull), JTop(JNum(0)), JTop(JStr("hi")) }

PositionPayloads ==
  JunkPayloads \cup
  { JObj([npub |-> JStr("npub1"), tab |-> JStr("t1"), x |-> JNum(700), y |-> JNum(-5)]),
    JObj([npub |-> JStr("npub1"), tab |-> JStr("t1"), x |-> JStr("184"), y |-> JNum(184)]),
    JObj([npub |-> JStr(""), tab |-> JStr("t1"), x |-> JNum(184), y |-> JNum(184)]) }

ProfilePayloads ==
  JunkPayloads \cup
  { JObj([npub |-> JStr("npub1"), pubkey |-> JStr("pk1"), picture |-> JStr("u1")]),
    JObj([npub |-> JStr("npub1"), picture |-> JStr("u1")]) }

ZonesPayloads ==
  JunkPayloads \cup
  { JObj([zones |-> JArr(<<>>)]),
    JObj([zones |-> JArr(<<"forge">>)]),
    JObj([zones |-> JArr(<<"library">>)]),
    JObj([zones |-> JStr("forge")]),
    JTop(JArr(<<"forge">>)) }

SpeakingPayloads ==
  JunkPayloads \cup
  { JObj([level |-> JNum(130)]),
    JObj([level |-> JStr("50")]) }

\* frames that decodePacket rejects by its checks: too short, unknown version,
\* length mismatch
BadShapes ==
  { [byteLength |-> 8, version |-> 0, channelCount |-> 0, frameCount |-> 0],
    [byteLength |-> 14, version |-> 2, channelCount |-> 1, frameCount |-> 1],
    [byteLength |-> 10, version |-> 1, channelCount |-> 1, frameCount |-> 1] }

\* one channel of one frame
OneFrame == [byteLength |-> 14, version |-> 1, channelCount |-> 1, frameCount |-> 1]

\* frames whose length matches their header: OneFrame, and a frame of no channel
GoodShapes ==
  { OneFrame, [byteLength |-> 10, version |-> 1, channelCount |-> 0, frameCount |-> 1] }

\* the frame of shape s at byte offset o, its header giving the capture rate
At(s, o) ==
  [byteOffset |-> o, byteLength |-> s.byteLength, version |-> s.version,
   channelCount |-> s.channelCount, sampleRate |-> TicksPerSecond,
   frameCount |-> s.frameCount]

\* a frame starts at any byte offset of its backing buffer (modulo the sample width)
Frames ==
  { At(s, 2) : s \in BadShapes \cup GoodShapes } \cup { At(OneFrame, o) : o \in 0..3 }

\* where the local player is placed at load (a random point of the arena): in no zone
StartPoint == <<320, 400>>

\* profile.picture of the profile the login gives
LocalPicture == "u1"

\* where setLocalPosition moves it: inside forge, in no zone
LocalPoints == { <<184, 184>>, <<320, 400>> }

ClockSteps == { STALE_TIMEOUT + 1 }

\* the tracks of the scenarios in which an address is announced again after
\* its teardown
ResubTracks == {POSITION_TRACK, ZONES_TRACK}

(***************************************************************************)
(* Init: the page is loaded and connected, nobody has logged in, the       *)
(* directory has announced nothing.  The environment of a behaviour is     *)
(* fixed here: what each address offers, and how often the directory       *)
(* starts a subscription to it (once; up to MaxGen times where it offers   *)
(* no more than ResubTracks).                                              *)
(***************************************************************************)
\* what an address may offer: no more than three of the tracks, or all five
Offers == { t \in SUBSET Tracks : Cardinality(t) # 4 }

\* no feed of the jitter buffer, no use of the codec
NoFeed == [scenario |-> "none"]
NoCodec == [stage |-> "none"]

\* no zone function is called on its own
NoQuery == [stage |-> "none"]

\* let captureMode: "mic" | "tone" | undefined
NoMode == "undefined"

\* the client when the page is loaded
AtLoad ==
  /\ players = [a \in {} |-> 0]
  /\ localPlayer = [x |-> StartPoint[1], y |-> StartPoint[2], zones |-> <<>>,
                    lastSeen |-> 0, isLocal |-> TRUE,
                    imageUrl |-> NoStr, image |-> NoStr]
  /\ started = FALSE
  /\ remoteSubscriptions = [a \in Paths |-> 0]
  /\ subs = [s \in Paths \X Gens |-> NoSub]
  /\ remotes = [a \in {} |-> 0]
  /\ context = FALSE
  /\ now = 0
  /\ currentTime = 0
  /\ captureMode = NoMode
  /\ audioCapture = 0
  /\ captures = <<>>
  /\ currentSpeakingLevel = 0
  /\ unloaded = FALSE
  /\ subscribers = [name \in Tracks |-> {}]
  /\ tracks = <<>>
  /\ serving = FALSE
  /\ lastSnapshotAt = 0
  /\ lastSentX = StartPoint[1]
  /\ lastSentY = StartPoint[2]
  /\ published = [at |-> 0, force |-> FALSE, seq |-> 0]
  /\ samplesHandled = 0
  /\ avatarCache = [url \in {} |-> 0]
  /\ avatarCallbacks = {}

Init ==
  /\ AtLoad
  /\ offered \in [Peers -> Offers]
  /\ \A a \in Peers \ Addresses : offered[a] = {}
  /\ announcesLeft =
       [a \in Peers |-> IF a \notin Addresses THEN 0
                        ELSE IF offered[a] \subseteq ResubTracks THEN MaxGen ELSE 1]
  /\ feed = NoFeed
  /\ codec = NoCodec
  /\ query = NoQuery

(***************************************************************************)
(* Actions                                                                 *)
(***************************************************************************)
\* one round of the announcement loop: entry is {path, active}, canOpen the
\* tracks the broadcast at that path lets a subscriber open
announced(w, path, active, canOpen) ==
  IF path \in selfBroadcastPaths(w) THEN w
  ELSE IF active THEN subscribeTo(w, path, canOpen)
  ELSE unsubscribeFrom(w, path)

\* the announcement loop reads {path, active: true}
AnnounceActive(path) ==
  /\ remoteSubscriptions[path] # 0 \/ announcesLeft[path] > 0
  /\ Commit(announced(World, path, TRUE, offered[path]))
  /\ announcesLeft' =
       IF remoteSubscriptions'[path] # remoteSubscriptions[path]
       THEN [announcesLeft EXCEPT ![path] = @ - 1] ELSE announcesLeft
  /\ UNCHANGED <<now, offered, aside>>

\* the announcement loop reads {path, active: false}
AnnounceInactive(path) ==
  /\ Commit(announced(World, path, FALSE, offered[path]))
  /\ UNCHANGED <<now, offered, announcesLeft, aside>>

\* the announcement loop reads an entry for the page's own path, which the
\* directory announces once startSession has published it
AnnounceSelf(active) ==
  /\ started
  /\ Commit(announced(World, LocalKey, active, Tracks))
  /\ UNCHANGED <<now, offered, announcesLeft, aside>>

\* a read loop is resumed with a payload
PositionRead(path, g, payload) ==
  /\ POSITION_TRACK \in subs[<<path, g>>].active
  /\ Commit(positionMessage(World, path, g, payload))
  /\ UNCHANGED <<now, offered, announcesLeft, aside>>

ProfileRead(path, g, payload) ==
  /\ PROFILE_TRACK \in subs[<<path, g>>].active
  /\ Commit(profileMessage(World, path, g, payload))
  /\ UNCHANGED <<now, offered, announcesLeft, aside>>

ZonesRead(path, g, payload) ==
  /\ ZONES_TRACK \in subs[<<path, g>>].active
  /\ Commit(zonesMessage(World, path, g, payload))
  /\ UNCHANGED <<now, offered, announcesLeft, aside>>

SpeakingRead(path, g, payload) ==
  /\ SPEAKING_TRACK \in subs[<<path, g>>].active
  /\ Commit(speakingMessage(World, path, g, payload))
  /\ UNCHANGED <<now, offered, announcesLeft, aside>>

\* a jitter state takes MaxFrames packets in a behaviour
Takes(path, payload) ==
  IF decodePacket(payload).r # "ok" THEN TRUE
  ELSE IF enqueueThrows(World, decodePacket(payload)) THEN TRUE
  ELSE IF path \notin DOMAIN remotes THEN TRUE
  ELSE remotes[path].stats.framesDecoded < MaxFrames * payload.frameCount

AudioRead(path, g, payload) ==
  /\ AUDIO_TRACK \in subs[<<path, g>>].active
  /\ Takes(path, payload)
  /\ Commit(audioMessage(World, path, g, payload))
  /\ UNCHANGED <<now, offered, announcesLeft, aside>>

\* a read returns end-of-stream or throws: the loop's .finally() runs
TrackEnd(path, g, track) ==
  /\ track \in subs[<<path, g>>].active
  /\ Commit(trackFinally(World, path, g, track))
  /\ UNCHANGED <<now, offered, announcesLeft, aside>>

\* login succeeds: enableAudioControls, then startSession
\* runPublishLoop starts to wait for requests; publishState(true) and
\* broadcastZonesUpdate() find the subscribers there are
StartSession ==
  /\ ~started
  /\ Commit(updateLocalZones(
       queueAvatarLoad([resume(World) EXCEPT !.started = TRUE], LocalKey, LocalPicture),
       TRUE))
  /\ CommitPublish(
       broadcastZonesUpdate(
         publishZones(
           publishState([PublishWorld EXCEPT !.serving = TRUE], localPlayer, TRUE,
                        now, TRUE),
           localPlayer.zones, localPlayer, TRUE),
         zonesForPoint(localPlayer.x, localPlayer.y)))
  /\ UNCHANGED <<now, offered, announcesLeft, apart>>

\* window.__mapDemo.setLocalPosition(x, y)
SetLocalPosition(x, y) ==
  /\ started
  /\ Commit(updateLocalZones(
       [World EXCEPT !.localPlayer.x = clamp(x, 0, ARENA_WIDTH),
                     !.localPlayer.y = clamp(y, 0, ARENA_HEIGHT),
                     !.localPlayer.lastSeen = now], TRUE))
  /\ LET moved == [localPlayer EXCEPT !.x = clamp(x, 0, ARENA_WIDTH),
                                      !.y = clamp(y, 0, ARENA_HEIGHT)]
     IN CommitPublish(
          publishZones(publishState(PublishWorld, moved, TRUE, now, TRUE),
                       localPlayer.zones, moved, TRUE))
  /\ UNCHANGED <<now, offered, announcesLeft, apart>>

\* tick(now) with the keys giving the direction (dx, dy) and a step of m pixels
Frame(dx, dy, m) ==
  /\ Commit(pruneStale(updateLocalPosition(World, dx, dy, m), now, STALE_TIMEOUT))
  /\ LET moved == movedBy(localPlayer, dx, dy, m, now)
     IN CommitPublish(
          IF ~started THEN PublishWorld
          ELSE publishZones(publishState(PublishWorld, moved, TRUE, now, FALSE),
                            localPlayer.zones, moved, FALSE))
  /\ UNCHANGED <<now, offered, announcesLeft, apart>>

\* requestAnimationFrame(tick), no key held
Tick == Frame(0, 0, 0)

\* the clock steps of a behaviour: MaxAdvance, and one where an address offers
\* more than two tracks
Advances == IF \E a \in Peers : Cardinality(offered[a]) > 2 THEN 1 ELSE MaxAdvance

\* time passes
Advance(d) ==
  /\ now + d <= Advances * (STALE_TIMEOUT + 1)
  /\ now' = now + d
  /\ UNCHANGED <<players, localPlayer, started, remoteSubscriptions, subs, remotes,
                 context, offered, announcesLeft, aside, avatars>>

Next ==
  \/ \E path \in Addresses : AnnounceActive(path)
  \/ \E path \in Addresses : AnnounceInactive(path)
  \/ \E path \in Addresses, g \in Gens, payload \in PositionPayloads :
       PositionRead(path, g, payload)
  \/ \E path \in Addresses, g \in Gens, payload \in ProfilePayloads :
       ProfileRead(path, g, payload)
  \/ \E path \in Addresses, g \in Gens, payload \in ZonesPayloads :
       ZonesRead(path, g, payload)
  \/ \E path \in Addresses, g \in Gens, payload \in SpeakingPayloads :
       SpeakingRead(path, g, payload)
  \/ \E path \in Addresses, g \in Gens, payload \in Frames :
       AudioRead(path, g, payload)
  \/ \E path \in Addresses, g \in Gens, track \in Tracks : TrackEnd(path, g, track)
  \/ StartSession
  \/ \E pt \in LocalPoints : SetLocalPosition(pt[1], pt[2])
  \/ Tick
  \/ \E d \in ClockSteps : Advance(d)

Spec == Init /\ [][Next]_vars

(***************************************************************************)
(* Properties                                                              *)
(***************************************************************************)
\* the zone set the client holds for a peer: none while it has no Player entry
ZonesOf(path) == IF path \in DOMAIN players THEN players[path].zones ELSE <<>>

\* the subscriptions that were created
Made == { s \in Slots : subs[s].opened # {} }

\* the subscription of path that is in remoteSubscriptions, if any
Live(path) == <<path, remoteSubscriptions[path]>>

\* C1: in every reachable state, every remote peer that has a playback path has
\* gain 0 whenever its zone set and the local zone set share no zone id (either
\* set may be empty), whatever the order of subscription start, zone messages,
\* audio packets and local movement.
C1_SilentWhenDisjoint ==
  \A path \in DOMAIN remotes :
    ~intersects(localPlayer.zones, ZonesOf(path)) => remotes[path].gain = 0

\* C2: fan-in retention.  For a subscription with any subset of the five
\* channels opened, a step that is neither a directory withdrawal of the address
\* nor a frame's prune, and after which an opened channel has still not reported
\* closed, removes neither the subscription entry nor the Peer entry.  Channels
\* that failed to open are never in the active set.
C2_RetainedWhileChannelActive ==
  [][ \A path \in Addresses :
        \/ remoteSubscriptions[path] = 0
        \/ /\ remoteSubscriptions'[path] = remoteSubscriptions[path]
           /\ subs'[Live(path)].active \subseteq subs[Live(path)].opened
           /\ ~subs'[Live(path)].closed
           /\ (path \in DOMAIN players => path \in DOMAIN players')
        \/ subs'[Live(path)].active = {}
        \/ AnnounceInactive(path)
        \/ Tick ]_vars

\* three of five channels were opened, two of them have reported closed, and the
\* subscription entry and the Peer entry are still there
C2_Witness ==
  \E path \in Addresses :
    /\ remoteSubscriptions[path] # 0
    /\ Cardinality(subs[Live(path)].opened) = 3
    /\ Cardinality(subs[Live(path)].active) = 1
    /\ path \in DOMAIN players

\* C3: teardown runs its effects exactly once per subscription.  The step of the
\* first trigger closes every opened channel, closes the jitter state of the
\* address and removes the subscription entry and the Peer entry; from then on
\* the subscription stays closed and no trigger runs the effects again; a
\* withdrawal of an address that has no subscription entry changes nothing.
C3_TeardownOnce ==
  [][ /\ \A s \in Slots :
           /\ subs'[s].teardowns <= 1
           /\ (~subs[s].closed /\ subs'[s].closed)
                => /\ subs'[s].teardowns = 1
                   /\ subs'[s].tracksClosed = subs[s].opened
                   /\ s[1] \notin DOMAIN remotes'
                   /\ s[1] \notin DOMAIN players'
                   /\ remoteSubscriptions'[s[1]] = 0
           /\ subs[s].closed
                => /\ subs'[s].closed
                   /\ subs'[s].teardowns = subs[s].teardowns
                   /\ subs'[s].tracksClosed = subs[s].tracksClosed
      /\ \A path \in Addresses :
           (remoteSubscriptions[path] = 0 /\ AnnounceInactive(path)) => UNCHANGED vars
    ]_vars

\* a subscription was torn down, and finish was triggered again afterwards
C3_Witness ==
  \E s \in Slots :
    /\ subs[s].closed /\ subs[s].repeated
    /\ subs[s].teardowns = 1
    /\ Cardinality(subs[s].opened) >= 2

\* the scenarios of SpecChannelsEnd: what the address offers
EndOffers ==
  { {POSITION_TRACK, AUDIO_TRACK, ZONES_TRACK},
    {POSITION_TRACK, PROFILE_TRACK, SPEAKING_TRACK} }

InitChannelsEnd ==
  /\ Init
  /\ \A a \in Addresses : offered[a] \in EndOffers /\ announcesLeft[a] = 1

\* while a read loop is running, one of the running read loops eventually gets
\* end-of-stream or an error
ChannelsEnd ==
  WF_vars(\E path \in Addresses, g \in Gens, track \in Tracks : TrackEnd(path, g, track))

SpecChannelsEnd == InitChannelsEnd /\ [][Next]_vars /\ ChannelsEnd

\* C4: liveness of fan-in.  Where every opened channel eventually ends, every
\* subscription is eventually closed (again and again, all the subscriptions made
\* so far are closed); and the step that marks the last opened channel of an open
\* subscription inactive is the step that closes it, removing the subscription
\* entry, the Peer entry and the jitter state.
C4_FanInCloses ==
  /\ [][ \A s \in Slots :
           (subs[s].active # {} /\ subs'[s].active = {} /\ ~subs[s].closed)
             => /\ subs'[s].closed
                /\ remoteSubscriptions'[s[1]] = 0
                /\ s[1] \notin DOMAIN players'
                /\ s[1] \notin DOMAIN remotes' ]_vars
  /\ []<>(\A s \in Slots : subs[s].opened # {} => subs[s].closed)

\* a subscription of three channels was closed by its last channel ending
C4_Witness ==
  \E s \in Slots :
    /\ Cardinality(subs[s].opened) = 3
    /\ subs[s].active = {}
    /\ subs[s].closed /\ ~subs[s].repeated

\* the gain the zone rule gives the path of an address
MixGain(path) == IF intersects(localPlayer.zones, ZonesOf(path)) THEN 1 ELSE 0

\* C5: when the client has processed a zones message of a remote peer, or a change
\* of its own zone set, the gain of every remote peer that has a playback path is
\* 1 if the peer's zones intersect the local zones and 0 otherwise.
C5_MixAfterZoneEvent ==
  [][ ( \/ \E path \in Addresses, g \in Gens, payload \in ZonesPayloads :
             /\ ~Falsy(payload) /\ parseZones(payload).ok
             /\ ZonesRead(path, g, payload)
        \/ localPlayer'.zones # localPlayer.zones )
      => \A path \in DOMAIN remotes' : remotes'[path].gain = MixGain(path)' ]_vars

\* C6: an address whose position channel cannot be opened gets no subscription
\* entry, no Peer entry and no open channel; otherwise the subscription has
\* exactly the channels that could be opened, an absent channel is never active,
\* and the subscription is closed once the opened channels are all inactive.
C6_OpenFailures ==
  \A path \in Addresses :
    /\ POSITION_TRACK \notin offered[path]
         => /\ remoteSubscriptions[path] = 0
            /\ path \notin DOMAIN players
            /\ \A g \in Gens : subs[<<path, g>>] = NoSub
    /\ \A g \in Gens :
         subs[<<path, g>>].opened # {}
           => /\ subs[<<path, g>>].opened = offered[path]
              /\ subs[<<path, g>>].active \subseteq offered[path]
              /\ subs[<<path, g>>].active = {} => subs[<<path, g>>].closed

\* a subscription whose profile, audio and speaking channels failed to open was
\* closed by its two opened channels ending
C6_Witness ==
  \E s \in Slots :
    /\ offered[s[1]] = {POSITION_TRACK, ZONES_TRACK}
    /\ subs[s].opened = {POSITION_TRACK, ZONES_TRACK}
    /\ subs[s].active = {}
    /\ subs[s].closed /\ ~subs[s].repeated

\* C7: on each JSON channel a payload that is not a well-formed message of the
\* channel, whatever its JSON type or value, changes no peer state: the channel
\* stays active and the read loop goes on.
C7_MalformedJsonDropped ==
  [][ \A path \in Addresses, g \in Gens :
        /\ \A payload \in PositionPayloads :
             (~parsePosition(payload).ok /\ PositionRead(path, g, payload))
               => UNCHANGED <<subs, players, remotes, remoteSubscriptions>>
        /\ \A payload \in ProfilePayloads :
             (~parseProfile(payload).ok /\ ProfileRead(path, g, payload))
               => UNCHANGED <<subs, players, remotes, remoteSubscriptions>>
        /\ \A payload \in ZonesPayloads :
             (~parseZones(payload).ok /\ ZonesRead(path, g, payload))
               => UNCHANGED <<subs, players, remotes, remoteSubscriptions>>
        /\ \A payload \in SpeakingPayloads :
             (~parseSpeaking(payload).ok /\ SpeakingRead(path, g, payload))
               => UNCHANGED <<subs, players, remotes, remoteSubscriptions>> ]_vars

\* C8: an audio frame that does not decode (too short, unknown version, length
\* mismatch, or a payload that starts at an offset its samples cannot be viewed
\* at) is dropped: the audio channel stays active and the jitter state of the
\* peer is unchanged.
C8_UndecodableFrameDropped ==
  [][ \A path \in Addresses, g \in Gens, payload \in Frames :
        (decodePacket(payload).r # "ok" /\ AudioRead(path, g, payload))
          => UNCHANGED <<subs, remotes>> ]_vars

\* C9: the step in which the audio channel of an open subscription is marked
\* inactive leaves no jitter state of that peer, whether or not other channels of
\* the peer are still active.
C9_AudioCloseClosesPlayback ==
  [][ \A s \in Slots :
        ( /\ ~subs[s].closed
          /\ AUDIO_TRACK \in subs[s].active
          /\ AUDIO_TRACK \notin subs'[s].active )
        => s[1] \notin DOMAIN remotes' ]_vars

\* C10: the step in which the zones channel of an open subscription is marked
\* inactive leaves the peer with no zone and with gain 0; the step in which its
\* speaking channel is marked inactive leaves its speaking level 0; whether or not
\* other channels of the peer are still active.
C10_CloseResets ==
  [][ \A s \in Slots :
        /\ ( /\ ~subs[s].closed
             /\ ZONES_TRACK \in subs[s].active
             /\ ZONES_TRACK \notin subs'[s].active )
           => /\ ZonesOf(s[1])' = <<>>
              /\ s[1] \in DOMAIN remotes' => remotes'[s[1]].gain = 0
        /\ ( /\ ~subs[s].closed
             /\ SPEAKING_TRACK \in subs[s].active
             /\ SPEAKING_TRACK \notin subs'[s].active
             /\ s[1] \in DOMAIN players' )
           => players'[s[1]].speakingLevel = 0 ]_vars

(***************************************************************************)
(* Presence pruning, observed on two peers that offer only their position  *)
(* and are never withdrawn, with the clock at the stale timeout and one    *)
(* millisecond before and after it.                                        *)
(***************************************************************************)
PruneTimes == { 1, STALE_TIMEOUT, STALE_TIMEOUT + 1 }

\* a well-formed position message
PrunePayloads ==
  { JObj([npub |-> JStr("npub1"), tab |-> JStr("t1"), x |-> JNum(700), y |-> JNum(-5)]) }

InitPrune ==
  /\ AtLoad
  /\ offered = [a \in Peers |-> {POSITION_TRACK}]
  /\ announcesLeft = [a \in Peers |-> 1]
  /\ feed = NoFeed
  /\ codec = NoCodec
  /\ query = NoQuery

\* time passes until t
AdvanceTo(t) ==
  /\ now < t
  /\ now' = t
  /\ UNCHANGED <<players, localPlayer, started, remoteSubscriptions, subs, remotes,
                 context, offered, announcesLeft, aside, avatars>>

NextPrune ==
  \/ \E path \in Peers : AnnounceActive(path)
  \/ \E path \in Peers, g \in Gens, payload \in PrunePayloads : PositionRead(path, g, payload)
  \/ \E path \in Peers, g \in Gens : TrackEnd(path, g, POSITION_TRACK)
  \/ StartSession
  \/ \E pt \in LocalPoints : SetLocalPosition(pt[1], pt[2])
  \/ Tick
  \/ \E t \in PruneTimes : AdvanceTo(t)

SpecPrune == InitPrune /\ [][NextPrune]_vars

\* C11: a frame's pruneStale removes every remote Peer whose last update is more
\* than the timeout ago and tears its subscription down; it keeps, unchanged,
\* every Peer whose last update is the timeout or less ago, with its
\* subscription; and it never removes the local Peer, however old its update.
C11_PruneStale ==
  [][ Tick =>
        /\ \A path \in DOMAIN players :
             IF now - players[path].lastSeen > STALE_TIMEOUT
             THEN /\ path \notin DOMAIN players'
                  /\ remoteSubscriptions'[path] = 0
                  /\ remoteSubscriptions[path] # 0
                       => /\ subs'[Live(path)].closed
                          /\ subs'[Live(path)].tracksClosed = subs[Live(path)].opened
             ELSE /\ path \in DOMAIN players'
                  /\ players'[path] = players[path]
                  /\ remoteSubscriptions'[path] = remoteSubscriptions[path]
                  /\ \A g \in Gens : subs'[<<path, g>>] = subs[<<path, g>>]
        /\ started' = started ]_vars

\* at one millisecond past the timeout, pA (last seen at 0) was pruned with its
\* position channel still active, pB (last seen at 1, the timeout ago) is kept,
\* and so is the local Peer, last seen at 0
C11_Witness ==
  /\ now = STALE_TIMEOUT + 1
  /\ "pA" \notin DOMAIN players
  /\ subs[<<"pA", 1>>].closed /\ POSITION_TRACK \in subs[<<"pA", 1>>].active
  /\ "pB" \in DOMAIN players /\ players["pB"].lastSeen = 1
  /\ remoteSubscriptions["pB"] # 0
  /\ started /\ localPlayer.lastSeen = 0

(***************************************************************************)
(* The jitter buffer on its own: AudioPlayback fed by a caller.  The feed  *)
(* of a behaviour is fixed in Init: the paths it enqueues for, its         *)
(* packets, the steps of the audio clock, how many enqueues and clock      *)
(* steps are left, and whether the caller also sets volumes, closes paths  *)
(* and shuts the buffer down.                                              *)
(***************************************************************************)
\* a decoded packet of one channel at the rate of the context
Packet(frames) == [channelCount |-> 1, frameCount |-> frames, sampleRate |-> TicksPerSecond]

\* 20 ms; 20 ms captured at half the rate; 9 s; a packet of no frames
Packet20ms == Packet(960)
Packet20msHalfRate == [channelCount |-> 1, frameCount |-> 480, sampleRate |-> 24000]
Packet9s == Packet(9 * TicksPerSecond)
PacketEmpty == Packet(0)

\* a packet arrives every second: each one after its predecessor has played out
Starve ==
  [scenario |-> "starve", paths |-> {"pA"}, packets |-> {Packet20ms},
   steps |-> {TicksPerSecond}, enqueues |-> MaxStarve, clocks |-> MaxStarve,
   controls |-> FALSE, closed |-> {}]

\* bursts, gaps of 20 ms, of exactly the cooldown and of one tick more
Mixed ==
  [scenario |-> "mixed", paths |-> {"pA"}, packets |-> {Packet20ms, Packet9s},
   steps |-> {960, SHRINK_COOLDOWN_SECONDS, SHRINK_COOLDOWN_SECONDS + 1},
   enqueues |-> MaxEnqueue, clocks |-> MaxClock, controls |-> FALSE, closed |-> {}]

\* two peers, with volume changes, closes and shutdown
Pair ==
  [scenario |-> "pair", paths |-> Peers,
   packets |-> {Packet20ms, Packet20msHalfRate, PacketEmpty},
   steps |-> {TicksPerSecond}, enqueues |-> MaxEnqueue, clocks |-> 1,
   controls |-> TRUE, closed |-> {}]

Feeds == {Starve, Mixed, Pair}

Volumes == {0, 1}

InitJitter ==
  /\ AtLoad
  /\ offered = [a \in Peers |-> {}]
  /\ announcesLeft = [a \in Peers |-> 0]
  /\ feed \in Feeds
  /\ codec = NoCodec
  /\ query = NoQuery

CommitPlayback(w) ==
  /\ remotes' = w.remotes
  /\ context' = w.context
  /\ currentTime' = w.currentTime
  /\ UNCHANGED <<players, localPlayer, started, remoteSubscriptions, subs, now,
                 offered, announcesLeft, codec, query, capture, publish, avatars>>

\* audioPlayback.resume()
JResume ==
  /\ ~context
  /\ CommitPlayback(resume(World))
  /\ UNCHANGED feed

\* audioPlayback.enqueue(path, packet); createBuffer throws before any state is
\* read or written
JEnqueue(path, packet) ==
  /\ feed.enqueues > 0
  /\ CommitPlayback(IF enqueueThrows(World, packet) THEN World
                    ELSE enqueue(World, path, packet))
  /\ feed' = [feed EXCEPT !.enqueues = @ - 1]

\* the audio clock of the context runs
JAdvance(d) ==
  /\ context
  /\ feed.clocks > 0
  /\ CommitPlayback([World EXCEPT !.currentTime = @ + d])
  /\ feed' = [feed EXCEPT !.clocks = @ - 1]

\* audioPlayback.setVolume(path, value)
JSetVolume(path, value) ==
  /\ feed.controls
  /\ CommitPlayback(setVolume(World, path, value))
  /\ UNCHANGED feed

\* audioPlayback.close(path); the feed keeps the paths whose state a close released
JClose(path) ==
  /\ feed.controls
  /\ CommitPlayback(close(World, path))
  /\ feed' = IF path \in DOMAIN remotes THEN [feed EXCEPT !.closed = @ \cup {path}]
             ELSE feed

\* audioPlayback.shutdown()
JShutdown ==
  /\ feed.controls
  /\ CommitPlayback(shutdown(World))
  /\ UNCHANGED feed

NextJitter ==
  \/ JResume
  \/ \E path \in feed.paths, packet \in feed.packets : JEnqueue(path, packet)
  \/ \E d \in feed.steps : JAdvance(d)
  \/ \E path \in Peers, value \in Volumes : JSetVolume(path, value)
  \/ \E path \in Peers : JClose(path)
  \/ JShutdown

SpecJitter == InitJitter /\ [][NextJitter]_vars

\* the enqueue of a packet that createBuffer accepts, with a context
Enqueues(path, packet) ==
  context /\ ~enqueueThrows(World, packet) /\ JEnqueue(path, packet)

\* the packets of all feeds
Packets == UNION { f.packets : f \in Feeds }

\* C12: the underrun step.  An enqueue for a path whose cursor nextTime is
\* strictly before the clock adds exactly one to the underrun count, raises the
\* target lead by LEAD_STEP_UP but not above MAX_LEAD_SECONDS, starts the packet
\* at the reset cursor, the clock plus the raised target lead, and does not
\* lower the target lead; an enqueue for a path whose cursor is at or after the
\* clock, or for a new path, leaves the underrun count as it was.
C12_UnderrunStep ==
  [][ \A path \in Peers, packet \in Packets :
        Enqueues(path, packet) =>
          IF path \in DOMAIN remotes
          THEN IF remotes[path].nextTime < currentTime
               THEN /\ remotes'[path].stats.underruns = remotes[path].stats.underruns + 1
                    /\ remotes'[path].targetLead =
                         IF remotes[path].targetLead + LEAD_STEP_UP > MAX_LEAD_SECONDS
                         THEN MAX_LEAD_SECONDS
                         ELSE remotes[path].targetLead + LEAD_STEP_UP
                    /\ remotes'[path].targetLead >= remotes[path].targetLead
                    /\ remotes'[path].startAt = currentTime + remotes'[path].targetLead
                    /\ remotes'[path].nextTime = remotes'[path].startAt + duration(packet)
               ELSE remotes'[path].stats.underruns = remotes[path].stats.underruns
          ELSE remotes'[path].stats.underruns = 0 ]_vars

\* the eighth underrun of a starved path has met the bound: the step from
\* 34080 ticks would give 37920
C12_Witness ==
  /\ "pA" \in DOMAIN remotes
  /\ remotes["pA"].stats.underruns = 8
  /\ remotes["pA"].targetLead = MAX_LEAD_SECONDS
  /\ remotes["pA"].lastUnderrunAt = currentTime
  /\ remotes["pA"].startAt = currentTime + MAX_LEAD_SECONDS

\* C13: the target lead of every path is at least MIN_LEAD_SECONDS (0.15 s) and
\* at most MAX_LEAD_SECONDS (0.75 s) after any sequence of enqueues at any clock
\* values, and the targetLead of the path's stats is the target lead of its
\* state.
C13_LeadWithinBounds ==
  \A path \in DOMAIN remotes :
    /\ MIN_LEAD_SECONDS <= remotes[path].targetLead
    /\ remotes[path].targetLead <= MAX_LEAD_SECONDS
    /\ remotes[path].stats.targetLead = remotes[path].targetLead

\* nine packets are enqueued and both the state and the stats give the maximum
C13_Witness ==
  /\ "pA" \in DOMAIN remotes
  /\ remotes["pA"].stats.framesDecoded = 9 * Packet20ms.frameCount
  /\ remotes["pA"].targetLead = MAX_LEAD_SECONDS
  /\ remotes["pA"].stats.targetLead = MAX_LEAD_SECONDS

\* C14: asymmetric adaptation.  The target lead of a path rises only in an
\* enqueue that records an underrun.  It falls only in an enqueue at a clock more
\* than STABLE_SECONDS (8 s) after the last underrun and more than
\* SHRINK_COOLDOWN_SECONDS (4 s) after the last adjustment, whose buffered-ahead
\* duration exceeds the target lead by more than the margin; it falls by
\* LEAD_STEP_DOWN, which is less than LEAD_STEP_UP, and the cursor is then at or
\* after the clock plus the new target lead.
C14_AsymmetricAdaptation ==
  [][ \A path \in DOMAIN remotes \cap DOMAIN remotes' :
        /\ remotes'[path].targetLead > remotes[path].targetLead
             => /\ \E packet \in Packets : Enqueues(path, packet)
                /\ remotes[path].nextTime < currentTime
                /\ remotes'[path].stats.underruns = remotes[path].stats.underruns + 1
        /\ remotes'[path].targetLead < remotes[path].targetLead
             => /\ \E packet \in Packets : Enqueues(path, packet)
                /\ remotes'[path].stats.underruns = remotes[path].stats.underruns
                /\ remotes[path].lastUnderrunAt # MinusInfinity
                /\ currentTime - remotes[path].lastUnderrunAt > STABLE_SECONDS
                /\ currentTime - remotes[path].lastAdjustmentAt > SHRINK_COOLDOWN_SECONDS
                /\ remotes'[path].stats.bufferedAhead
                     > remotes[path].targetLead + ShrinkMargin
                /\ remotes'[path].targetLead = remotes[path].targetLead - LEAD_STEP_DOWN
                /\ LEAD_STEP_DOWN < LEAD_STEP_UP
                /\ remotes'[path].nextTime >= currentTime + remotes'[path].targetLead ]_vars

\* one underrun has raised the target lead, and an enqueue more than 8 s later
\* has just lowered it by the smaller step
C14_Witness ==
  /\ "pA" \in DOMAIN remotes
  /\ remotes["pA"].stats.underruns = 1
  /\ remotes["pA"].targetLead = MIN_LEAD_SECONDS + LEAD_STEP_UP - LEAD_STEP_DOWN
  /\ remotes["pA"].lastAdjustmentAt = currentTime
  /\ currentTime - remotes["pA"].lastUnderrunAt > STABLE_SECONDS

\* C15: a burst.  An enqueue for a path at the clock value of the path's previous
\* enqueue (no time gap; the cursor is not in the past) starts its packet exactly
\* at the previous packet's start plus the previous packet's duration, so the
\* two do not overlap, and leaves the underrun count unchanged.
C15_BurstBackToBack ==
  [][ \A path \in DOMAIN remotes, packet \in Packets :
        ( /\ Enqueues(path, packet)
          /\ remotes[path].enqueuedAt = currentTime
          /\ remotes[path].nextTime >= currentTime )
        => /\ remotes'[path].startAt = remotes[path].endAt
           /\ remotes[path].endAt > remotes[path].startAt
           /\ remotes'[path].stats.underruns = remotes[path].stats.underruns ]_vars

\* three packets of 20 ms enqueued at one clock value: the third starts two
\* durations after the first
C15_Witness ==
  /\ "pA" \in DOMAIN remotes
  /\ remotes["pA"].stats.framesDecoded = 3 * Packet20ms.frameCount
  /\ remotes["pA"].stats.underruns = 0
  /\ remotes["pA"].enqueuedAt = currentTime
  /\ remotes["pA"].startAt = currentTime + MIN_LEAD_SECONDS + 2 * duration(Packet20ms)

\* C16: scheduling keeps the enqueue order.  Every enqueue starts its packet at
\* max(cursor, clock + target lead), the cursor being nextTime, or the clock plus
\* the raised target lead after an underrun, or the clock plus MIN_LEAD_SECONDS
\* for a new path, and leaves the cursor at that start plus the packet's
\* duration.  The packet starts after the start and no earlier than the end of
\* the path's previous packet, and no step moves the cursor of a path backwards.
C16_EnqueueOrder ==
  [][ /\ \A path \in Peers, packet \in Packets :
           Enqueues(path, packet) =>
             LET known == path \in DOMAIN remotes
                 late == known /\ remotes[path].nextTime < currentTime
                 shrunk == known /\ remotes'[path].targetLead < remotes[path].targetLead
                 lead == IF shrunk THEN remotes[path].targetLead
                         ELSE remotes'[path].targetLead
                 cursor == IF ~known THEN currentTime + MIN_LEAD_SECONDS
                           ELSE IF late THEN currentTime + lead
                           ELSE remotes[path].nextTime
             IN /\ remotes'[path].startAt = Max(cursor, currentTime + lead)
                /\ remotes'[path].nextTime = remotes'[path].startAt + duration(packet)
                /\ known => /\ remotes'[path].startAt > remotes[path].startAt
                            /\ remotes'[path].startAt >= remotes[path].endAt
      /\ \A path \in DOMAIN remotes \cap DOMAIN remotes' :
           remotes'[path].nextTime >= remotes[path].nextTime ]_vars

\* a 20 ms packet enqueued behind a 9 s packet starts at that packet's end, far
\* later than the clock plus the target lead
C16_Witness ==
  /\ "pA" \in DOMAIN remotes
  /\ remotes["pA"].stats.framesDecoded = Packet9s.frameCount + 2 * Packet20ms.frameCount
  /\ remotes["pA"].stats.underruns = 1
  /\ remotes["pA"].enqueuedAt = currentTime
  /\ remotes["pA"].startAt > currentTime + MAX_LEAD_SECONDS
  /\ remotes["pA"].nextTime = remotes["pA"].startAt + duration(Packet20ms)

\* C17: the first packet.  An enqueue for a path that has no jitter state creates
\* the state with target lead MIN_LEAD_SECONDS and no underrun, starts the
\* packet at the clock plus MIN_LEAD_SECONDS, the cursor of the new state, and
\* counts the packet's frames from zero.  An enqueue without an AudioContext
\* creates no state and schedules nothing.
C17_FirstPacket ==
  [][ \A path \in Peers, packet \in Packets :
        /\ (Enqueues(path, packet) /\ path \notin DOMAIN remotes)
             => /\ path \in DOMAIN remotes'
                /\ remotes'[path].targetLead = MIN_LEAD_SECONDS
                /\ remotes'[path].stats.targetLead = MIN_LEAD_SECONDS
                /\ remotes'[path].stats.underruns = 0
                /\ remotes'[path].lastUnderrunAt = MinusInfinity
                /\ remotes'[path].stats.framesDecoded = packet.frameCount
                /\ remotes'[path].startAt = currentTime + MIN_LEAD_SECONDS
                /\ remotes'[path].nextTime
                     = currentTime + MIN_LEAD_SECONDS + duration(packet)
                /\ \A other \in DOMAIN remotes : remotes'[other] = remotes[other]
        /\ (~context /\ JEnqueue(path, packet))
             => remotes' = remotes /\ ~context' ]_vars

\* of two enqueues, the one before resume() was dropped and the one a second
\* after it created the state
C17_Witness ==
  /\ feed.scenario = "starve"
  /\ feed.enqueues = MaxStarve - 2
  /\ "pA" \in DOMAIN remotes
  /\ remotes["pA"].stats.framesDecoded = Packet20ms.frameCount
  /\ remotes["pA"].stats.underruns = 0
  /\ remotes["pA"].enqueuedAt = TicksPerSecond
  /\ remotes["pA"].startAt = TicksPerSecond + MIN_LEAD_SECONDS

\* C18: close and shutdown.  Closing a path twice leaves the state that closing
\* it once leaves, closing a path without jitter state changes nothing, and a
\* close removes the state of its path alone: every other path keeps its state,
\* and the AudioContext and its clock stay.  After shutdown no path has a state
\* and the AudioContext is released.
C18_CloseIdempotent ==
  /\ [](\A path \in Peers :
          /\ close(close(World, path), path) = close(World, path)
          /\ path \notin DOMAIN remotes => close(World, path) = World
          /\ DOMAIN shutdown(World).remotes = {}
          /\ ~shutdown(World).context)
  /\ [][ /\ \A path \in Peers :
              JClose(path) =>
                /\ DOMAIN remotes' = DOMAIN remotes \ {path}
                /\ \A other \in DOMAIN remotes' : remotes'[other] = remotes[other]
                /\ context' = context
                /\ currentTime' = currentTime
         /\ JShutdown => DOMAIN remotes' = {} /\ ~context' ]_vars

\* the state of pA was released by a close, and pB still has its packet, its
\* cursor and the gain it was given
C18_Witness ==
  /\ feed.closed = {"pA"}
  /\ DOMAIN remotes = {"pB"}
  /\ remotes["pB"].stats.framesDecoded = Packet20ms.frameCount
  /\ remotes["pB"].nextTime = MIN_LEAD_SECONDS + duration(Packet20ms)
  /\ remotes["pB"].gain = 0
  /\ context

\* C19: setVolume.  On a path without jitter state it changes nothing and creates
\* no state.  On a path with a state it sets the gain of that state and leaves
\* its cursor, target lead, underrun count, frame count and every other field,
\* and the state of every other path, as they were.
C19_SetVolumeFrame ==
  [][ \A path \in Peers, value \in Volumes :
        JSetVolume(path, value) =>
          /\ DOMAIN remotes' = DOMAIN remotes
          /\ context' = context
          /\ currentTime' = currentTime
          /\ \A other \in DOMAIN remotes :
               IF other = path
               THEN /\ remotes'[other].gain = value
                    /\ [remotes'[other] EXCEPT !.gain = remotes[other].gain]
                         = remotes[other]
               ELSE remotes'[other] = remotes[other] ]_vars

\* both paths have a packet scheduled; pA was set to gain 0 and pB kept gain 1
C19_Witness ==
  /\ DOMAIN remotes = Peers
  /\ remotes["pA"].gain = 0
  /\ remotes["pB"].gain = 1
  /\ remotes["pA"].stats.framesDecoded > 0
  /\ remotes["pB"].stats.framesDecoded > 0
  /\ remotes["pA"].nextTime = remotes["pA"].startAt + duration(Packet20ms)

(***************************************************************************)
(* audio/packets.ts on its own.  A behaviour starts from channels and a    *)
(* sample rate handed to encodePacket, or from a frame received from the   *)
(* transport; sample values are small integers standing for float32 values.*)
(***************************************************************************)
Samples == {1, 2}

\* sample blocks of up to MaxBlock frames, and lists of up to MaxChannels blocks
Blocks == UNION { [1..n -> Samples] : n \in 0..MaxBlock }
ChannelLists == UNION { [1..n -> Blocks] : n \in 0..MaxChannels }

Rates == {44100, TicksPerSecond}

\* the blocks one after the other, as data.set(source, channel * frameCount) lays
\* out blocks of frameCount samples each
RECURSIVE Flatten(_)
Flatten(channels) ==
  IF Len(channels) = 0 THEN <<>> ELSE Head(channels) \o Flatten(Tail(channels))

\* new Float32Array(buffer, byteOffset, length) throws a RangeError unless
\* byteOffset is a multiple of the sample width
ViewThrows(byteOffset) == byteOffset % 4 # 0

\* "undefined", "throw" or "ok" with the frame: a Uint8Array over the whole of a
\* new ArrayBuffer.  The samples are written through a Float32Array view that
\* starts at HEADER_BYTES; the 32-bit header fields hold every rate and frame
\* count there is here.
encodePacket(channels, sampleRate) ==
  IF Len(channels) = 0 THEN [r |-> "undefined"]
  ELSE LET frameCount == Len(channels[1])
           channelCount == Len(channels)
       IN IF ViewThrows(HEADER_BYTES) THEN [r |-> "throw"]
          ELSE IF \E c \in 1..channelCount : Len(channels[c]) # frameCount
               THEN [r |-> "undefined"]
          ELSE [r |-> "ok", frameCount |-> frameCount,
                buffer |-> [byteOffset |-> 0,
                            byteLength |-> HEADER_BYTES + frameCount * channelCount * 4,
                            version |-> VERSION, channelCount |-> channelCount % 256,
                            sampleRate |-> sampleRate, frameCount |-> frameCount,
                            data |-> Flatten(channels)]]

\* decodePacket: data.slice(start, start + frameCount) per channel
channelsOf(payload) ==
  [c \in 1..payload.channelCount |->
     [i \in 1..payload.frameCount |-> payload.data[(c - 1) * payload.frameCount + i]]]

\* the lists encodePacket is meant for: one block or more, all of one length
EqualLength(channels) ==
  Len(channels) > 0 /\ \A c \in 1..Len(channels) : Len(channels[c]) = Len(channels[1])

\* the frame a peer's encoder sends for the channels, at a byte offset of the
\* buffer the transport delivers it in
Received(channels, sampleRate, o) ==
  [byteOffset |-> o,
   byteLength |-> HEADER_BYTES + Len(channels[1]) * Len(channels) * 4,
   version |-> VERSION, channelCount |-> Len(channels), sampleRate |-> sampleRate,
   frameCount |-> Len(channels[1]), data |-> Flatten(channels)]

\* frames decodePacket is to reject, at byte offset o: empty, a cut header, an
\* unknown version, fewer and more bytes than the header's counts give
Malformed(o) ==
  { [byteOffset |-> o, byteLength |-> n, version |-> v, channelCount |-> 1,
     sampleRate |-> TicksPerSecond, frameCount |-> f, data |-> <<1>>] :
      <<n, v, f>> \in { <<0, 0, 0>>, <<HEADER_BYTES - 2, VERSION, 0>>,
                        <<HEADER_BYTES + 4, VERSION + 1, 1>>,
                        <<HEADER_BYTES + 4, VERSION, 2>>,
                        <<HEADER_BYTES + 8, VERSION, 1>> } }

\* the three checks of decodePacket before it reads samples
Rejected(payload) ==
  \/ payload.byteLength < HEADER_BYTES
  \/ payload.version # VERSION
  \/ payload.byteLength # HEADER_BYTES + payload.channelCount * payload.frameCount * 4

InitCodec ==
  /\ AtLoad
  /\ offered = [a \in Peers |-> {}]
  /\ announcesLeft = [a \in Peers |-> 0]
  /\ feed = NoFeed
  /\ query = NoQuery
  /\ \/ \E channels \in ChannelLists, sampleRate \in Rates :
          codec = [stage |-> "input", channels |-> channels, sampleRate |-> sampleRate]
     \/ \E channels \in ChannelLists, o \in 0..3 :
          /\ EqualLength(channels)
          /\ codec = [stage |-> "frame", channels |-> channels,
                      sampleRate |-> TicksPerSecond,
                      frame |-> Received(channels, TicksPerSecond, o)]
     \/ \E o \in 0..3 : \E frame \in Malformed(o) :
          codec = [stage |-> "frame", channels |-> <<>>,
                   sampleRate |-> TicksPerSecond, frame |-> frame]

\* encodePacket(channels, sampleRate)
Encode ==
  /\ codec.stage = "input"
  /\ codec' = [stage |-> "encoded", channels |-> codec.channels,
               sampleRate |-> codec.sampleRate,
               encoded |-> encodePacket(codec.channels, codec.sampleRate)]
  /\ UNCHANGED <<players, localPlayer, started, remoteSubscriptions, subs, remotes,
                 context, now, offered, announcesLeft, currentTime, feed, query,
                 capture, publish, avatars>>

\* the frame decodePacket is given: the one received, or the one encodePacket made
FrameOf(c) == IF c.stage = "frame" THEN c.frame ELSE c.encoded.buffer

\* decodePacket(payload)
Decode ==
  /\ codec.stage = "frame" \/ (codec.stage = "encoded" /\ codec.encoded.r = "ok")
  /\ codec' = [stage |-> "decoded", channels |-> codec.channels,
               sampleRate |-> codec.sampleRate,
               frame |-> FrameOf(codec),
               decoded |-> decodePacket(FrameOf(codec))]
  /\ UNCHANGED <<players, localPlayer, started, remoteSubscriptions, subs, remotes,
                 context, now, offered, announcesLeft, currentTime, feed, query,
                 capture, publish, avatars>>

NextCodec == Encode \/ Decode

SpecCodec == InitCodec /\ [][NextCodec]_vars

\* C20: round trip.  For every list of one or more sample blocks of equal length
\* and every sample rate, encodePacket returns a frame, and decodePacket of that
\* frame returns the same channel count, frame count and sample rate and the
\* same samples in the same channel order.
C20_RoundTrip ==
  (codec.stage = "encoded" /\ EqualLength(codec.channels))
    => /\ codec.encoded.r = "ok"
       /\ decodePacket(codec.encoded.buffer).r = "ok"
       /\ decodePacket(codec.encoded.buffer).channelCount = Len(codec.channels)
       /\ decodePacket(codec.encoded.buffer).frameCount = Len(codec.channels[1])
       /\ decodePacket(codec.encoded.buffer).sampleRate = codec.sampleRate
       /\ channelsOf(codec.encoded.buffer) = codec.channels

\* C21: decodePacket at any byte offset.  A frame whose length, version and counts
\* are right decodes to the same channels, frame count and sample rate at
\* byte offsets 0, 1, 2 and 3 of its backing buffer; no offset makes decodePacket
\* fail or throw.
C21_AnyOffsetDecodes ==
  (codec.stage = "decoded" /\ ~Rejected(codec.frame))
    => /\ codec.decoded.r = "ok"
       /\ codec.decoded.channelCount = Len(codec.channels)
       /\ codec.decoded.frameCount = Len(codec.channels[1])
       /\ codec.decoded.sampleRate = codec.sampleRate
       /\ channelsOf(codec.frame) = codec.channels

\* C22: decodePacket fails by value.  For a frame that is empty, shorter than the
\* header, of an unknown version, or of a length other than HEADER_BYTES +
\* channelCount * frameCount * 4, at any byte offset, decodePacket returns
\* undefined: it does not throw and returns no channels.
C22_MalformedIsUndefined ==
  (codec.stage = "decoded" /\ Rejected(codec.frame)) => codec.decoded = [r |-> "undefined"]

\* a frame with four bytes more than its counts give, at an odd byte offset, was
\* rejected
C22_Witness ==
  /\ codec.stage = "decoded"
  /\ codec.frame.byteOffset = 1
  /\ codec.frame.version = VERSION
  /\ codec.frame.byteLength = HEADER_BYTES + 8
  /\ codec.frame.channelCount * codec.frame.frameCount = 1
  /\ codec.decoded.r = "undefined"

\* C23: encodePacket fails by value.  It returns undefined, and does not throw,
\* for the empty channel list and for a list with a block whose length differs
\* from the first block's, and returns a frame for every list of one or more
\* blocks of equal length.
C23_EncodeResult ==
  codec.stage = "encoded"
    => codec.encoded.r = (IF EqualLength(codec.channels) THEN "ok" ELSE "undefined")

MaxCaptures == 3
MaxWaiters == 2

Modes == {"mic", "tone"}
Levels == {0, 1}

\* new AudioCapture(callbacks, {syntheticTone: mode === "tone", monitor})
\* context, processor, stream: the private fields are set.  state: the state of
\* the AudioContext the instance made.  connected: its processor node is wired to
\* the destination.  live: a MediaStream it was given has tracks that run.
\* starting: where start() waits.  waiters: the continuations of the callers that
\* wait for stop().  stopped, failed, denied: stop() has resolved, start() has
\* rejected, getUserMedia has rejected.
NewCapture(mode) ==
  [syntheticTone |-> mode = "tone", context |-> FALSE, state |-> "none",
   processor |-> FALSE, connected |-> FALSE, stream |-> FALSE, live |-> FALSE,
   starting |-> "no", waiters |-> <<>>, stopped |-> FALSE, failed |-> FALSE,
   denied |-> FALSE]

CaptureWorld ==
  [captureMode |-> captureMode, audioCapture |-> audioCapture, captures |-> captures,
   currentSpeakingLevel |-> currentSpeakingLevel]

\* AudioCapture.start() up to `await this.#context.resume()`
start(c) ==
  IF c.context THEN c
  ELSE [c EXCEPT !.context = TRUE, !.state = "running", !.starting = "resume"]

\* AudioCapture.stop() up to `await this.#context.close()`
stop(c) ==
  [c EXCEPT !.connected = IF c.processor THEN FALSE ELSE @,
            !.processor = FALSE,
            !.live = IF c.stream THEN FALSE ELSE @,
            !.stream = FALSE,
            !.state = IF c.context /\ @ = "running" THEN "closing" ELSE @]

\* startCapture(mode) after `await audioCapture.stop()`, up to the wait of start()
startCaptureNew(cw, mode) ==
  [cw EXCEPT !.captureMode = mode,
             !.audioCapture = Len(cw.captures) + 1,
             !.captures = Append(@, start(NewCapture(mode)))]

\* stopCapture() after `await audioCapture.stop()`
stopCaptureDone(cw) ==
  [cw EXCEPT !.audioCapture = 0, !.captureMode = NoMode, !.currentSpeakingLevel = 0]

\* the caller of stop(): waiter is "stop" for stopCapture, the mode for
\* startCapture.  closes: whether close() of a context that is already closing
\* resolves (with the close) or rejects, which ends the caller with the rejection.
Continue(cw, waiter) ==
  IF waiter = "stop" THEN stopCaptureDone(cw) ELSE startCaptureNew(cw, waiter)

AwaitStop(cw, waiter, closes) ==
  IF cw.audioCapture = 0 THEN Continue(cw, waiter)
  ELSE LET i == cw.audioCapture
           c == cw.captures[i]
       IN IF ~c.context
          THEN Continue([cw EXCEPT !.captures[i] = [stop(c) EXCEPT !.stopped = TRUE]],
                        waiter)
          ELSE IF c.state = "closing" /\ ~closes
          THEN [cw EXCEPT !.captures[i] = stop(c)]
          ELSE [cw EXCEPT !.captures[i] = [stop(c) EXCEPT !.waiters = Append(@, waiter)]]

startCapture(cw, mode, closes) == AwaitStop(cw, mode, closes)

stopCapture(cw, closes) == AwaitStop(cw, "stop", closes)

toggleCapture(cw, mode, closes) ==
  IF cw.captureMode = mode THEN stopCapture(cw, closes)
  ELSE startCapture(cw, mode, closes)

\* the catch of startCapture: start() of the capture i has rejected
startFailed(cw, i) ==
  [cw EXCEPT !.captureMode = NoMode, !.audioCapture = 0,
             !.captures[i].starting = "no", !.captures[i].failed = TRUE]

\* the context of the capture i is closed: stop() sets #context and resolves, and
\* its callers go on in the order they called
RECURSIVE ContinueAll(_, _)
ContinueAll(cw, waiters) ==
  IF waiters = <<>> THEN cw
  ELSE ContinueAll(Continue(cw, Head(waiters)), Tail(waiters))

closed(cw, i) ==
  ContinueAll([cw EXCEPT !.captures[i].state = "closed",
                         !.captures[i].context = FALSE,
                         !.captures[i].stopped = TRUE,
                         !.captures[i].waiters = <<>>],
              cw.captures[i].waiters)

\* start() of the capture i after `await this.#context.resume()`
resumed(cw, i, resolves) ==
  LET c == cw.captures[i]
  IN IF ~resolves \/ ~c.context THEN startFailed(cw, i)
     ELSE IF c.syntheticTone
     THEN [cw EXCEPT !.captures[i].processor = TRUE,
                     !.captures[i].connected = TRUE,
                     !.captures[i].starting = "no"]
     ELSE [cw EXCEPT !.captures[i].processor = TRUE,
                     !.captures[i].starting = "getUserMedia"]

\* start() of the capture i after `await navigator.mediaDevices.getUserMedia()`
gotUserMedia(cw, i, granted) ==
  LET c == cw.captures[i]
  IN IF ~granted THEN startFailed([cw EXCEPT !.captures[i].denied = TRUE], i)
     ELSE LET got == [cw EXCEPT !.captures[i].stream = TRUE, !.captures[i].live = TRUE]
          IN IF ~c.context \/ ~c.processor THEN startFailed(got, i)
             ELSE [got EXCEPT !.captures[i].connected = TRUE,
                              !.captures[i].starting = "no"]

\* the click finds room: for one more capture, and for one more caller that waits
Room ==
  audioCapture # 0 => Len(captures[audioCapture].waiters) < MaxWaiters

\* the captures a continuation that waits may still construct
Pending(cs) ==
  LET RECURSIVE Count(_)
      Count(k) == IF k = 0 THEN 0
                  ELSE Count(k - 1)
                       + Cardinality({n \in DOMAIN cs[k].waiters : cs[k].waiters[n] # "stop"})
  IN Count(Len(cs))

CommitCapture(cw) ==
  /\ captureMode' = cw.captureMode
  /\ audioCapture' = cw.audioCapture
  /\ captures' = cw.captures
  /\ currentSpeakingLevel' = cw.currentSpeakingLevel

\* no use of the player, the directory, the jitter feed or the codec
besideCapture ==
  <<players, localPlayer, started, remoteSubscriptions, subs, now, offered,
    announcesLeft, feed, codec, query, publish, avatars>>

InitCapture ==
  /\ AtLoad
  /\ offered = [a \in Peers |-> {}]
  /\ announcesLeft = [a \in Peers |-> 0]
  /\ feed = NoFeed
  /\ codec = NoCodec
  /\ query = NoQuery

\* a click on micToggle or toneToggle
ToggleCapture(mode, closes) ==
  /\ ~unloaded
  /\ Len(captures) + Pending(captures) < MaxCaptures
  /\ Room
  /\ closes \/ (audioCapture # 0 /\ captures[audioCapture].state = "closing")
  /\ CommitCapture(toggleCapture(CaptureWorld, mode, closes))
  /\ IF Len(captures') > Len(captures)
     THEN /\ remotes' = resume(World).remotes
          /\ context' = resume(World).context
          /\ currentTime' = resume(World).currentTime
     ELSE UNCHANGED <<remotes, context, currentTime>>
  /\ UNCHANGED <<unloaded, besideCapture>>

\* a change of monitorCheckbox
MonitorChange(closes) ==
  /\ ~unloaded
  /\ captureMode # NoMode
  /\ Len(captures) + Pending(captures) < MaxCaptures
  /\ Room
  /\ closes \/ (audioCapture # 0 /\ captures[audioCapture].state = "closing")
  /\ CommitCapture(startCapture(CaptureWorld, captureMode, closes))
  /\ IF Len(captures') > Len(captures)
     THEN /\ remotes' = resume(World).remotes
          /\ context' = resume(World).context
          /\ currentTime' = resume(World).currentTime
     ELSE UNCHANGED <<remotes, context, currentTime>>
  /\ UNCHANGED <<unloaded, besideCapture>>

\* the AudioContext of the capture i has closed
Closed(i) ==
  /\ ~unloaded
  /\ captures[i].state = "closing"
  /\ CommitCapture(closed(CaptureWorld, i))
  /\ IF Len(captures') > Len(captures)
     THEN /\ remotes' = resume(World).remotes
          /\ context' = resume(World).context
          /\ currentTime' = resume(World).currentTime
     ELSE UNCHANGED <<remotes, context, currentTime>>
  /\ UNCHANGED <<unloaded, besideCapture>>

\* resume() of the AudioContext of the capture i settles; it may reject only
\* where the context is not running any more
Resumed(i, resolves) ==
  /\ ~unloaded
  /\ captures[i].starting = "resume"
  /\ resolves \/ captures[i].state # "running"
  /\ CommitCapture(resumed(CaptureWorld, i, resolves))
  /\ UNCHANGED <<remotes, context, currentTime, unloaded, besideCapture>>

\* getUserMedia settles for the capture i
GotUserMedia(i, granted) ==
  /\ ~unloaded
  /\ captures[i].starting = "getUserMedia"
  /\ CommitCapture(gotUserMedia(CaptureWorld, i, granted))
  /\ UNCHANGED <<remotes, context, currentTime, unloaded, besideCapture>>

\* onaudioprocess of the capture i: onSamples finds no subscriber, onLevel
\* stores the level
AudioProcess(i, level) ==
  /\ ~unloaded
  /\ captures[i].connected /\ captures[i].state # "closed"
  /\ captures[i].context
  /\ currentSpeakingLevel' = level
  /\ UNCHANGED <<captureMode, audioCapture, captures>>
  /\ UNCHANGED <<remotes, context, currentTime, unloaded, besideCapture>>

\* beforeunload: audioCapture?.stop().catch(() => {}); audioPlayback.shutdown()
Unload ==
  /\ ~unloaded
  /\ unloaded' = TRUE
  /\ captures' = IF audioCapture = 0 THEN captures
                 ELSE [captures EXCEPT ![audioCapture] = stop(@)]
  /\ remotes' = shutdown(World).remotes
  /\ context' = shutdown(World).context
  /\ UNCHANGED <<captureMode, audioCapture, currentSpeakingLevel, currentTime,
                 besideCapture>>

NextCapture ==
  \/ \E mode \in Modes, closes \in BOOLEAN : ToggleCapture(mode, closes)
  \/ \E closes \in BOOLEAN : MonitorChange(closes)
  \/ \E i \in DOMAIN captures : Closed(i)
  \/ \E i \in DOMAIN captures, resolves \in BOOLEAN : Resumed(i, resolves)
  \/ \E i \in DOMAIN captures, granted \in BOOLEAN : GotUserMedia(i, granted)
  \/ \E i \in DOMAIN captures, level \in Levels : AudioProcess(i, level)
  \/ Unload

SpecCapture == InitCapture /\ [][NextCapture]_vars

\* the capture holds a device resource: an AudioContext that is not closed, a
\* processor node that is wired, a MediaStream whose tracks run
Holds(c) == c.state \in {"running", "closing"} \/ c.connected \/ c.live

\* the capture delivers samples
Running(c) == c.connected /\ c.state = "running"

ModeOf(c) == IF c.syntheticTone THEN "tone" ELSE "mic"

\* the capture keeps a device resource that nothing is about to release
Leaks(c) == c.state = "running" \/ c.connected \/ c.live

\* C25: where the device has refused no request, at most one AudioCapture holds
\* device resources at a time, whatever clicks arrive while a start or a stop
\* waits, and a capture that delivers samples is the one captureMode names.
C25_OneCapture ==
  (\A i \in DOMAIN captures : ~captures[i].denied)
    => /\ Cardinality({i \in DOMAIN captures : Holds(captures[i])}) <= 1
       /\ \A i \in DOMAIN captures : Running(captures[i]) => captureMode = ModeOf(captures[i])

\* C26: a capture whose stop() has resolved or whose start() has rejected keeps no
\* AudioContext running, no processor wired and no stream running, and neither
\* does the capture the page held when it was unloaded: no callback comes from it.
C26_StopReleases ==
  /\ \A i \in DOMAIN captures :
       (captures[i].stopped \/ captures[i].failed) => ~Leaks(captures[i])
  /\ (unloaded /\ audioCapture # 0)
       => ~captures[audioCapture].connected /\ ~captures[audioCapture].live

(***************************************************************************)
(* The publish side: the loop of runPublishLoop serves the requests of     *)
(* subscribers while the page publishes its position.                      *)
(***************************************************************************)
MaxRequests == 3

\* a track name the page does not publish
UnsupportedTrack == "chat.json"

RequestNames == Tracks \cup {UnsupportedTrack}

\* no use of the directory, the playback, the jitter feed, the codec or the capture
besidePublish ==
  <<players, localPlayer, started, remoteSubscriptions, subs, remotes, context, now,
    offered, announcesLeft, apart, avatars>>

InitPublish ==
  /\ AtLoad
  /\ offered = [a \in Peers |-> {}]
  /\ announcesLeft = [a \in Peers |-> 0]
  /\ feed = NoFeed
  /\ codec = NoCodec
  /\ query = NoQuery

\* active.requested() resolves with a track of that name
Request(name) ==
  /\ serving
  /\ Len(tracks) < MaxRequests
  /\ CommitPublish(served(PublishWorld, name, localPlayer, currentSpeakingLevel))
  /\ UNCHANGED besidePublish

\* the subscriber of the track t goes away: the track is closed
TrackCloses(t) ==
  /\ ~tracks[t].closed
  /\ tracks' = [tracks EXCEPT ![t].closed = TRUE]
  /\ UNCHANGED <<subscribers, serving, lastSnapshotAt, lastSentX, lastSentY, published,
                 samplesHandled>>
  /\ UNCHANGED besidePublish

\* track.closed of the track t settles
TrackClosed(t) ==
  /\ tracks[t].closed
  /\ tracks[t].name \in Tracks
  /\ t \in subscribers[tracks[t].name]
  /\ CommitPublish(trackClosed(PublishWorld, t))
  /\ UNCHANGED besidePublish

NextPublish ==
  \/ StartSession
  \/ \E name \in RequestNames : Request(name)
  \/ \E t \in DOMAIN tracks : TrackCloses(t)
  \/ \E t \in DOMAIN tracks : TrackClosed(t)
  \/ \E pt \in LocalPoints : SetLocalPosition(pt[1], pt[2])
  \/ Tick

SpecPublish == InitPublish /\ [][NextPublish]_vars

\* C27: a track of unknown name is in no subscriber set in any state; the round
\* of the publish loop that gets it closes it with the error "unsupported track
\* <name>", leaves the five subscriber sets as they are, and leaves the loop
\* waiting for the next request.
C27_UnsupportedRejected ==
  /\ [](\A name \in Tracks : \A t \in subscribers[name] : tracks[t].name = name)
  /\ [][ (Len(tracks') = Len(tracks) + 1 /\ tracks'[Len(tracks')].name \notin Tracks)
           => /\ tracks'[Len(tracks')].closed
              /\ tracks'[Len(tracks')].error
                   = "unsupported track " \o tracks'[Len(tracks')].name
              /\ subscribers' = subscribers
              /\ serving' ]_vars

\* an unknown name was requested between two requests that were served, and the
\* subscriber of before is still registered
C27_Witness ==
  /\ Len(tracks) = 3
  /\ tracks[1].name = POSITION_TRACK /\ 1 \in subscribers[POSITION_TRACK]
  /\ tracks[2].name = UnsupportedTrack /\ tracks[2].closed
  /\ tracks[3].name = ZONES_TRACK /\ 3 \in subscribers[ZONES_TRACK]
  /\ serving

(***************************************************************************)
(* The throttle of publishState: position subscribers, a clock, and the    *)
(* two callers of publishState, tick and setLocalPosition.                 *)
(***************************************************************************)
PublishTimes ==
  { SNAPSHOT_INTERVAL - 1, SNAPSHOT_INTERVAL, 2 * SNAPSHOT_INTERVAL,
    SNAPSHOT_INTERVAL + HEARTBEAT_INTERVAL - 1, SNAPSHOT_INTERVAL + HEARTBEAT_INTERVAL }

NextThrottle ==
  \/ StartSession
  \/ Request(POSITION_TRACK)
  \/ \E t \in DOMAIN tracks : TrackCloses(t)
  \/ \E t \in DOMAIN tracks : TrackClosed(t)
  \/ \E pt \in LocalPoints : SetLocalPosition(pt[1], pt[2])
  \/ Tick
  \/ \E t \in PublishTimes : AdvanceTo(t)

SpecThrottle == InitPublish /\ [][NextThrottle]_vars

\* publishState has sent in this step
Sent == published' # published

\* the local position is no less than 1 away, on some axis, from the one last sent
Displaced == Abs(localPlayer.x - lastSentX) >= 1 \/ Abs(localPlayer.y - lastSentY) >= 1

\* C28: setLocalPosition sends at once where there is a position subscriber; a
\* send that is not forced comes SNAPSHOT_INTERVAL or more after the last snapshot
\* where the position is displaced and HEARTBEAT_INTERVAL or more where it is not,
\* hence SNAPSHOT_INTERVAL or more after the send before it; nothing is sent
\* while there is no position subscriber; what is sent is the local position, to
\* every position subscriber.
C28_Throttle ==
  [][ /\ (Sent /\ ~published'.force)
           => /\ now - lastSnapshotAt
                   >= (IF Displaced THEN SNAPSHOT_INTERVAL ELSE HEARTBEAT_INTERVAL)
              /\ published.seq # 0 => published'.at - published.at >= SNAPSHOT_INTERVAL
      /\ subscribers[POSITION_TRACK] = {} => ~Sent
      /\ Sent => /\ published'.at = now
                 /\ lastSnapshotAt' = now
                 /\ \A t \in subscribers'[POSITION_TRACK] :
                      tracks'[t].frame = serializeLocal(localPlayer')
      /\ \/ subscribers[POSITION_TRACK] = {}
         \/ Sent /\ published'.force
         \/ ~(\E pt \in LocalPoints : SetLocalPosition(pt[1], pt[2])) ]_vars

\* a send that was not forced, as soon as SNAPSHOT_INTERVAL allows it: the position
\* had moved while nobody subscribed
C28_Witness ==
  /\ published.seq # 0
  /\ ~published.force
  /\ published.at = SNAPSHOT_INTERVAL
  /\ lastSentX = 184

(***************************************************************************)
(* Avatars: the profile channel of two peers and the login of the page     *)
(* queue loads, and the images arrive or fail in any order.  No            *)
(* subscription ends here, so a key names one Player object.               *)
(***************************************************************************)
AvatarUrls == {"u1", "u2"}

\* profiles with a picture, and one without
AvatarPayloads ==
  { JObj([npub |-> JStr("npub1"), pubkey |-> JStr("pk1"), picture |-> JStr(url)]) :
      url \in AvatarUrls }
  \cup { JObj([npub |-> JStr("npub1"), pubkey |-> JStr("pk1")]) }

InitAvatar ==
  /\ AtLoad
  /\ offered = [a \in Peers |-> {POSITION_TRACK, PROFILE_TRACK}]
  /\ announcesLeft = [a \in Peers |-> 1]
  /\ feed = NoFeed
  /\ codec = NoCodec
  /\ query = NoQuery

\* the load of url ends: image.onload or image.onerror
AvatarSettled(url, loaded) ==
  /\ url \in DOMAIN avatarCache
  /\ avatarCache[url].state = "pending"
  /\ Commit(avatarSettled(World, url, loaded))
  /\ UNCHANGED <<now, offered, announcesLeft, aside>>

NextAvatar ==
  \/ \E path \in Peers : AnnounceActive(path)
  \/ \E path \in Peers, g \in Gens, payload \in AvatarPayloads : ProfileRead(path, g, payload)
  \/ StartSession
  \/ \E url \in AvatarUrls, loaded \in BOOLEAN : AvatarSettled(url, loaded)

SpecAvatar == InitAvatar /\ [][NextAvatar]_vars

\* C29: a step that gives a peer an image gives it the image of the picture its
\* profile names at that moment; no peer whose profile names another picture or
\* none gets an image from a load that was started for an earlier profile; and
\* loadAvatar is called once per URL at most.
C29_AvatarCurrent ==
  /\ [](\A url \in DOMAIN avatarCache : avatarCache[url].loads <= 1)
  /\ [][ \A path \in DOMAIN players' :
           LET before == IF path \in DOMAIN players THEN players[path].image ELSE NoStr
           IN (players'[path].image # before /\ players'[path].image # NoStr)
                => players'[path].image = players'[path].picture ]_vars

(***************************************************************************)
(* Two peers side by side: pA with position and zones, of which the        *)
(* profile, audio and speaking channels fail to open, pB with position and *)
(* audio.  The channels of either end, carry malformed payloads, and the   *)
(* directory withdraws either, while the page is logged in or not.         *)
(***************************************************************************)
InitIsolation ==
  /\ AtLoad
  /\ offered = [a \in Peers |-> IF a = "pA" THEN {POSITION_TRACK, ZONES_TRACK}
                                ELSE {POSITION_TRACK, AUDIO_TRACK}]
  /\ announcesLeft = [a \in Peers |-> 1]
  /\ feed = NoFeed
  /\ codec = NoCodec
  /\ query = NoQuery

NextIsolation ==
  \/ \E path \in Peers : AnnounceActive(path)
  \/ \E path \in Peers : AnnounceInactive(path)
  \/ \E path \in Peers, g \in Gens, payload \in PositionPayloads :
       PositionRead(path, g, payload)
  \/ \E path \in Peers, g \in Gens, payload \in ZonesPayloads : ZonesRead(path, g, payload)
  \/ \E path \in Peers, g \in Gens, payload \in Frames : AudioRead(path, g, payload)
  \/ \E path \in Peers, g \in Gens, track \in Tracks : TrackEnd(path, g, track)
  \/ StartSession

SpecIsolation == InitIsolation /\ [][NextIsolation]_vars

\* the step is one of the subscription of the address a: it is made, with
\* channels that fail to open, one of its channels ends, or it is torn down
Concerns(a) ==
  \/ remoteSubscriptions'[a] # remoteSubscriptions[a]
  \/ \E g \in Gens : subs'[<<a, g>>] # subs[<<a, g>>]

\* what the page holds for the address b: its subscription entry, the activity of
\* its channels, its Player, its gain and jitter state
Held(b) ==
  [subscription |-> remoteSubscriptions[b],
   channels |-> [g \in Gens |-> subs[<<b, g>>]],
   player |-> IF b \in DOMAIN players THEN players[b] ELSE [key |-> NoStr],
   playback |-> IF b \in DOMAIN remotes THEN remotes[b] ELSE [gain |-> Undefined]]

\* C30: a step that concerns the subscription of one peer (its channels fail to
\* open, a read fails or ends, a payload is malformed, it is torn down) leaves
\* what the page holds for every other peer as it is: subscription entry, channel
\* activity, Player, gain and jitter state; and it leaves the publish side as it is.
C30_PeerIsolation ==
  [][ \A a \in Peers : \A b \in Peers \ {a} :
        Concerns(a) => /\ Held(b)' = Held(b)
                       /\ UNCHANGED publish ]_vars

(***************************************************************************)
(* ensurePlayer on its own: called with every npub and color for an        *)
(* address that has an entry or none, with or without a profile, while the *)
(* local player, the fallback, is moved and the clock goes on.             *)
(***************************************************************************)
\* npub?: string and color?: string: absent, empty, and two values
Npubs == {NoStr, "", "npub1", "npub2"}
Colors == {NoStr, "", "#aa0000", "#00aa00"}

\* the times at which entries are made
PlayerTimes == {1, 2}

InitPlayers ==
  /\ AtLoad
  /\ offered = [a \in Peers |-> IF a \in Addresses THEN {POSITION_TRACK, PROFILE_TRACK} ELSE {}]
  /\ announcesLeft = [a \in Peers |-> IF a \in Addresses THEN 1 ELSE 0]
  /\ feed = NoFeed
  /\ codec = NoCodec
  /\ query = NoQuery

\* ensurePlayer(players, path, npub, color, localPlayer)
Ensure(path, npub, color) ==
  /\ Commit(ensurePlayer(World, path, npub, color))
  /\ UNCHANGED <<now, offered, announcesLeft, aside>>

NextPlayers ==
  \/ \E path \in Addresses : AnnounceActive(path)
  \/ \E path \in Addresses, g \in Gens, payload \in ProfilePayloads :
       ProfileRead(path, g, payload)
  \/ \E path \in Addresses, npub \in Npubs, color \in Colors : Ensure(path, npub, color)
  \/ StartSession
  \/ \E pt \in LocalPoints : SetLocalPosition(pt[1], pt[2])
  \/ \E t \in PlayerTimes : AdvanceTo(t)

SpecPlayers == InitPlayers /\ [][NextPlayers]_vars

\* an absent or empty string
Empty(s) == s \in {NoStr, ""}

\* C31: ensurePlayer for an address without an entry makes one entry, not local,
\* at the position of the fallback; for an address with an entry it keeps the
\* entry and changes nothing of it but, at most, its npub and its color: a set
\* npub stays, an unset one is taken only from a set argument, and the color stays
\* once the entry has a profile.  No other entry is touched, and the entries are
\* one per address.
C31_Upsert ==
  [][ \A path \in Addresses, npub \in Npubs, color \in Colors :
        Ensure(path, npub, color) =>
          /\ IF path \in DOMAIN players
             THEN /\ DOMAIN players' = DOMAIN players
                  /\ [players'[path] EXCEPT !.npub = players[path].npub,
                                            !.color = players[path].color] = players[path]
                  /\ ~Empty(players[path].npub) => players'[path].npub = players[path].npub
                  /\ players'[path].npub # players[path].npub
                       => ~Empty(npub) /\ players'[path].npub = npub
                  /\ players[path].profile # NoStr
                       => players'[path].color = players[path].color
             ELSE /\ DOMAIN players' = DOMAIN players \cup {path}
                  /\ ~players'[path].isLocal
                  /\ players'[path].x = localPlayer.x
                  /\ players'[path].y = localPlayer.y
                  /\ players'[path].npub = npub
          /\ \A other \in DOMAIN players \ {path} : players'[other] = players[other]
          /\ localPlayer' = localPlayer ]_vars

\* an entry that was made without npub away from the start point, and then got
\* its npub and its color from later calls, has a profile: the calls that follow
\* cannot change its color
C31_Witness ==
  \E path \in DOMAIN players :
    /\ players[path].profile # NoStr
    /\ players[path].color = "#aa0000"
    /\ players[path].x = 184
    /\ ~players[path].isLocal

(***************************************************************************)
(* Positions: one address with its position and speaking channels, which   *)
(* may be withdrawn, position messages inside and outside                  *)
(* the arena, and the local player moved by relocations and by held keys.  *)
(***************************************************************************)
\* the messages of a position channel: the payloads of before, and well-formed
\* messages left of and below the arena and inside it
PositionSeq ==
  PositionPayloads \cup
  { JObj([npub |-> JStr("npub1"), tab |-> JStr("t1"), x |-> JNum(-3), y |-> JNum(500)]),
    JObj([npub |-> JStr("npub1"), tab |-> JStr("t1"), x |-> JNum(184), y |-> JNum(184)]) }

\* a key is pressed where a relocation has put the local player, next to the
\* corner of the arena or next to the edge of a zone on either side, and is held
\* for one frame
KeyStarts == { <<638, 478>>, <<286, 184>>, <<30, 184>> }

\* dx and dy of updateLocalPosition
Directions == {-1, 0, 1}

\* SPEED * dt / length of a frame, in whole pixels: dt is 32 ms at most
KeySteps == {1, 4}

\* tick(now) while a key is held
KeyTick(dx, dy, m) ==
  /\ dx # 0 \/ dy # 0
  /\ <<localPlayer.x, localPlayer.y>> \in KeyStarts
  /\ Frame(dx, dy, m)

InitPosition ==
  /\ AtLoad
  /\ offered = [a \in Peers |-> IF a \in Addresses THEN {POSITION_TRACK, SPEAKING_TRACK} ELSE {}]
  /\ announcesLeft = [a \in Peers |-> IF a \in Addresses THEN 1 ELSE 0]
  /\ feed = NoFeed
  /\ codec = NoCodec
  /\ query = NoQuery

NextPosition ==
  \/ \E path \in Addresses : AnnounceActive(path)
  \/ \E path \in Addresses : AnnounceInactive(path)
  \/ \E path \in Addresses, g \in Gens, payload \in PositionSeq :
       PositionRead(path, g, payload)
  \/ \E path \in Addresses, g \in Gens : SpeakingRead(path, g, JObj([level |-> JNum(130)]))
  \/ \E path \in Addresses, g \in Gens, track \in Tracks : TrackEnd(path, g, track)
  \/ StartSession
  \/ \E pt \in {<<700, -5>>, <<638, 478>>} : SetLocalPosition(pt[1], pt[2])
  \/ \E dx \in Directions, dy \in Directions : KeyTick(dx, dy, 4)
  \/ \E t \in PlayerTimes : AdvanceTo(t)

SpecPosition == InitPosition /\ [][NextPosition]_vars

InBounds(p) == 0 <= p.x /\ p.x <= ARENA_WIDTH /\ 0 <= p.y /\ p.y <= ARENA_HEIGHT

\* what position messages write of a Player
Placed(p) == <<p.x, p.y, p.lastSeen>>

\* C32: the local player and every remote Player are inside the arena, edges
\* included, in every state.  The step that processes a well-formed position
\* message leaves the Player of the address at the clamp of the message, last seen
\* at the time of the step; and the position and the last-seen time of a Player
\* change in no other step, so that they are those of the last well-formed
\* message processed, in the order of processing.
C32_Positions ==
  /\ [](InBounds(localPlayer) /\ \A path \in DOMAIN players : InBounds(players[path]))
  /\ [][ \A path \in Addresses :
           /\ \A g \in Gens, payload \in PositionSeq :
                (parsePosition(payload).ok /\ PositionRead(path, g, payload))
                  => /\ path \in DOMAIN players'
                     /\ players'[path].x = clamp(parsePosition(payload).x, 0, ARENA_WIDTH)
                     /\ players'[path].y = clamp(parsePosition(payload).y, 0, ARENA_HEIGHT)
                     /\ players'[path].lastSeen = now
           /\ ( /\ path \in DOMAIN players
                /\ path \in DOMAIN players'
                /\ Placed(players'[path]) # Placed(players[path]) )
                => \E g \in Gens, payload \in PositionSeq :
                     parsePosition(payload).ok /\ PositionRead(path, g, payload) ]_vars

\* a Player that was made at the fallback position was moved by a message from
\* left of and below the arena to the corner (0, 480) at time 2, while the local
\* player, relocated next to the opposite corner, walked into it
C32_Witness ==
  /\ localPlayer.x = ARENA_WIDTH /\ localPlayer.y = ARENA_HEIGHT
  /\ \E path \in DOMAIN players :
       /\ players[path].x = 0 /\ players[path].y = ARENA_HEIGHT
       /\ players[path].lastSeen = 2
       /\ players[path].speakingLevel = 100

(***************************************************************************)
(* The zone functions on their own: intersects with two lists of zone ids, *)
(* as a zones message and zonesForPoint deliver them, and zonesForPoint    *)
(* with points on, inside and around the edges of the zones.               *)
(***************************************************************************)
MaxZoneList == 2

\* the ids of the zones, and an id that is no zone of the page
ZoneIds == {"forge", "library", "cellar"}

RECURSIVE ListsOf(_, _)
\* the lists of no more than n members of s
ListsOf(s, n) ==
  IF n = 0 THEN {<<>>}
  ELSE ListsOf(s, n - 1) \cup {Append(l, e) : l \in {k \in ListsOf(s, n - 1) : Len(k) = n - 1}, e \in s}

ZoneLists == ListsOf(ZoneIds, MaxZoneList)

\* for each zone: its corners and edges, one unit outside and inside of each
ZoneXs == UNION { {z.rect.x - 1, z.rect.x, z.rect.x + 1,
                   z.rect.x + z.rect.width - 1, z.rect.x + z.rect.width,
                   z.rect.x + z.rect.width + 1} : z \in {ZONES[i] : i \in DOMAIN ZONES} }
ZoneYs == UNION { {z.rect.y - 1, z.rect.y, z.rect.y + 1,
                   z.rect.y + z.rect.height - 1, z.rect.y + z.rect.height,
                   z.rect.y + z.rect.height + 1} : z \in {ZONES[i] : i \in DOMAIN ZONES} }

\* those, the points named by the tests, the centre and the corners of the arena
ZonePoints ==
  (ZoneXs \X ZoneYs)
    \cup { <<160, 160>>, <<184, 184>>, <<480, 160>>, <<320, 240>>, <<320, 400>>,
           <<0, 0>>, <<ARENA_WIDTH, ARENA_HEIGHT>> }

InitZones ==
  /\ AtLoad
  /\ offered = [a \in Peers |-> {}]
  /\ announcesLeft = [a \in Peers |-> 0]
  /\ feed = NoFeed
  /\ codec = NoCodec
  /\ \/ \E a \in ZoneLists, b \in ZoneLists : query = [stage |-> "lists", a |-> a, b |-> b]
     \/ \E pt \in ZonePoints : query = [stage |-> "point", x |-> pt[1], y |-> pt[2]]

besideZones ==
  <<players, localPlayer, started, remoteSubscriptions, subs, remotes, context, now,
    offered, announcesLeft, currentTime, feed, codec, capture, publish, avatars>>

\* intersects(a, b)
Intersects ==
  /\ query.stage = "lists"
  /\ query' = [stage |-> "intersects", a |-> query.a, b |-> query.b,
               result |-> intersects(query.a, query.b)]
  /\ UNCHANGED besideZones

\* zonesForPoint(x, y)
ZonesForPoint ==
  /\ query.stage = "point"
  /\ query' = [stage |-> "zones", x |-> query.x, y |-> query.y,
               result |-> zonesForPoint(query.x, query.y)]
  /\ UNCHANGED besideZones

NextZones == Intersects \/ ZonesForPoint

SpecZones == InitZones /\ [][NextZones]_vars

\* the members of a list
Members(l) == {l[i] : i \in DOMAIN l}

\* C33: intersects(a, b) is true exactly where the two lists have a member in
\* common, hence false where either is empty, and it is the same for (b, a).
C33_Audible ==
  query.stage = "intersects"
    => /\ query.result = (Members(query.a) \cap Members(query.b) # {})
       /\ (query.a = <<>> \/ query.b = <<>>) => ~query.result
       /\ query.result = intersects(query.b, query.a)

\* two lists of two ids in different order that share their second and first id
C33_Witness ==
  /\ query.stage = "intersects"
  /\ query.a = <<"cellar", "forge">> /\ query.b = <<"forge", "library">>
  /\ query.result

\* C34: zonesForPoint(x, y) is the list of the ids of the zones whose rectangle,
\* with its four edges, holds the point: forge for 32 <= x <= 288, 48 <= y <= 304,
\* library for 352 <= x <= 608, 48 <= y <= 304, each once, and nothing else.
C34_ZonesFor ==
  query.stage = "zones"
    => /\ ("forge" \in Members(query.result))
            = (32 <= query.x /\ query.x <= 288 /\ 48 <= query.y /\ query.y <= 304)
       /\ ("library" \in Members(query.result))
            = (352 <= query.x /\ query.x <= 608 /\ 48 <= query.y /\ query.y <= 304)
       /\ Members(query.result) \subseteq {"forge", "library"}
       /\ Len(query.result) = Cardinality(Members(query.result))
       /\ (query.x = 160 /\ query.y = 160) => query.result = <<"forge">>
       /\ (query.x = 184 /\ query.y = 184) => query.result = <<"forge">>
       /\ (query.x = 480 /\ query.y = 160) => query.result = <<"library">>

\* the far corner of the library, on two of its edges
C34_Witness ==
  /\ query.stage = "zones"
  /\ query.x = 608 /\ query.y = 304
  /\ query.result = <<"library">>

(***************************************************************************)
(* The publish side with a capture running: subscribers ask for tracks     *)
(* and go away while the page moves and the capture delivers blocks of     *)
(* samples.                                                                *)
(***************************************************************************)
MaxPackets == 2

\* the blocks a capture delivers: one channel of one sample, two channels of two
CaptureBlocks == { << <<1>> >>, << <<1, 2>>, <<2, 1>> >> }

\* the frame writeFrame(packet.buffer) gives a subscriber
AudioFrame(buffer) == [kind |-> "audio", buffer |-> buffer]

\* handleCapturedSamples(channels, sampleRate): a RangeError of encodePacket
\* leaves through the onSamples callback before anything is written
handleCapturedSamples(pw, channels, sampleRate) ==
  LET called == [pw EXCEPT !.samplesHandled = @ + 1]
  IN IF pw.subscribers[AUDIO_TRACK] = {} THEN called
     ELSE LET packet == encodePacket(channels, sampleRate)
          IN IF packet.r # "ok" THEN called
             ELSE WriteAll(called, AUDIO_TRACK, AudioFrame(packet.buffer))

\* onaudioprocess of a running capture: onSamples(channels, sampleRate)
CapturedSamples(channels, sampleRate) ==
  /\ started
  /\ samplesHandled < MaxPackets
  /\ CommitPublish(handleCapturedSamples(PublishWorld, channels, sampleRate))
  /\ UNCHANGED besidePublish

NextBroadcast ==
  \/ StartSession
  \/ \E name \in Tracks : Request(name)
  \/ \E t \in DOMAIN tracks : TrackCloses(t)
  \/ \E t \in DOMAIN tracks : TrackClosed(t)
  \/ \E pt \in LocalPoints : SetLocalPosition(pt[1], pt[2])
  \/ \E channels \in CaptureBlocks : CapturedSamples(channels, TicksPerSecond)

SpecBroadcast == InitPublish /\ [][NextBroadcast]_vars

\* the first frame of a track of that name: the snapshot of the local state
Snapshot(name) ==
  IF name = POSITION_TRACK THEN serializeLocal(localPlayer)
  ELSE IF name = PROFILE_TRACK THEN [kind |-> "profile"]
  ELSE [kind |-> "zones", zones |-> localPlayer.zones]

\* C35: the round of the publish loop that gets a position, profile or zones
\* track puts it into the subscriber set of its name and writes it the snapshot
\* of the local state of that moment, in the same step; and a block of samples
\* that is captured while there are audio subscribers is written, as the one frame
\* its encoding gives, to every audio subscriber whose track is open.
C35_NewSubscriber ==
  [][ /\ ( /\ Len(tracks') = Len(tracks) + 1
           /\ tracks'[Len(tracks')].name \in {POSITION_TRACK, PROFILE_TRACK, ZONES_TRACK} )
         => /\ Len(tracks') \in subscribers'[tracks'[Len(tracks')].name]
            /\ tracks'[Len(tracks')].frame = Snapshot(tracks'[Len(tracks')].name)
      /\ \A channels \in CaptureBlocks :
           CapturedSamples(channels, TicksPerSecond)
             => \A t \in subscribers[AUDIO_TRACK] :
                  ~tracks[t].closed
                    => tracks'[t].frame = AudioFrame(Received(channels, TicksPerSecond, 0)) ]_vars

(***************************************************************************)
(* Messages that are processed after the teardown of their subscription.   *)
(***************************************************************************)
\* C36: an address that has no subscription entry (none was made yet, or the
\* last one was torn down and none was made since) has no Player entry and no
\* jitter state, whatever was received on the channels of the subscription of
\* before and is processed after its teardown.
C36_NoEntryAfterTeardown ==
  \A path \in Addresses :
    remoteSubscriptions[path] = 0
      => path \notin DOMAIN players /\ path \notin DOMAIN remotes

\* C37: while an address has a subscription, the step in which a read loop of an
\* earlier subscription of that address ends (its .finally() runs) leaves the
\* subscription entry, the closure of the subscription that is live and the
\* Player of the address, with its zones and its speaking level, as they are.
C37_OldCleanupApart ==
  [][ \A path \in Addresses, g \in Gens, track \in Tracks :
        ( /\ remoteSubscriptions[path] # 0
          /\ g # remoteSubscriptions[path]
          /\ TrackEnd(path, g, track) )
        => /\ remoteSubscriptions'[path] = remoteSubscriptions[path]
           /\ subs'[Live(path)] = subs[Live(path)]
           /\ path \in DOMAIN players
                => path \in DOMAIN players' /\ players'[path] = players[path] ]_vars

(***************************************************************************)
(* Announcements: pA, which offers its position and zones, and pB, whose   *)
(* position channel cannot be opened, are announced and withdrawn in any   *)
(* order and any number of times, while channels end and stale peers are   *)
(* pruned.                                                                 *)
(***************************************************************************)
InitResubscribe ==
  /\ AtLoad
  /\ offered = [a \in Peers |-> IF a \in Addresses THEN ResubTracks ELSE {ZONES_TRACK}]
  /\ announcesLeft = [a \in Peers |-> MaxGen]
  /\ feed = NoFeed
  /\ codec = NoCodec
  /\ query = NoQuery

NextResubscribe ==
  \/ \E path \in Peers : AnnounceActive(path)
  \/ \E path \in Peers : AnnounceInactive(path)
  \/ \E path \in Peers, g \in Gens, payload \in PrunePayloads : PositionRead(path, g, payload)
  \/ \E path \in Peers, g \in Gens, track \in Tracks : TrackEnd(path, g, track)
  \/ StartSession
  \/ Tick
  \/ \E d \in ClockSteps : Advance(d)

SpecResubscribe == InitResubscribe /\ [][NextResubscribe]_vars

\* the subscriptions of an address that were made and not torn down
LiveGens(path) == { g \in Gens : subs[<<path, g>>].opened # {} /\ ~subs[<<path, g>>].closed }

\* C38: an address has one subscription that is not torn down at most, the one
\* in remoteSubscriptions.  An active announcement of an address that has a
\* subscription entry changes nothing: no channel is opened, the entry stays.  A
\* withdrawal of an address that has none changes nothing.  An active
\* announcement of an address that has none, and whose position channel opens,
\* makes a subscription that was not there before, with the channels that open.
C38_OneSubscription ==
  /\ [](\A path \in Peers :
          /\ Cardinality(LiveGens(path)) <= 1
          /\ LiveGens(path) = {remoteSubscriptions[path]} \ {0})
  /\ [][ \A path \in Peers :
           /\ (remoteSubscriptions[path] # 0 /\ AnnounceActive(path)) => UNCHANGED vars
           /\ (remoteSubscriptions[path] = 0 /\ AnnounceInactive(path)) => UNCHANGED vars
           /\ ( /\ remoteSubscriptions[path] = 0
                /\ POSITION_TRACK \in offered[path]
                /\ AnnounceActive(path) )
              => /\ remoteSubscriptions'[path] # 0
                 /\ subs[Live(path)'] = NoSub
                 /\ subs'[Live(path)'] =
                      [NoSub EXCEPT !.opened = offered[path], !.active = offered[path]] ]_vars

\* pA has its second subscription, the first was torn down, and pB, announced
\* or not, has none
C38_Witness ==
  /\ remoteSubscriptions["pA"] = 2
  /\ subs[<<"pA", 1>>].closed
  /\ ~subs[<<"pA", 2>>].closed
  /\ remoteSubscriptions["pB"] = 0

(***************************************************************************)
(* The page's own path: after login the directory announces and withdraws  *)
(* it like the path of any peer, while pA is subscribed, withdrawn and     *)
(* pruned and the local player grows stale.                                *)
(***************************************************************************)
InitSelf ==
  /\ AtLoad
  /\ offered = [a \in Peers |-> IF a \in Addresses THEN ResubTracks ELSE {}]
  /\ announcesLeft = [a \in Peers |-> IF a \in Addresses THEN MaxGen ELSE 0]
  /\ feed = NoFeed
  /\ codec = NoCodec
  /\ query = NoQuery

NextSelf ==
  \/ \E path \in Addresses : AnnounceActive(path)
  \/ \E path \in Addresses : AnnounceInactive(path)
  \/ \E active \in BOOLEAN : AnnounceSelf(active)
  \/ \E path \in Paths, g \in Gens, payload \in PrunePayloads : PositionRead(path, g, payload)
  \/ \E path \in Paths, g \in Gens, payload \in ZonesPayloads : ZonesRead(path, g, payload)
  \/ \E path \in Paths, g \in Gens, track \in Tracks : TrackEnd(path, g, track)
  \/ StartSession
  \/ \E pt \in LocalPoints : SetLocalPosition(pt[1], pt[2])
  \/ Tick
  \/ \E d \in ClockSteps : Advance(d)

SpecSelf == InitSelf /\ [][NextSelf]_vars

\* C39: the page's own path, published from login on, has no subscription entry
\* and no subscription was ever made for it, no Player of the remote kind and no
\* playback path; and once the local Player is in the directory of players no
\* step takes it out: no announcement or withdrawal, of its own path or of a
\* peer's, and no prune, however long ago it was last seen.
C39_NoSelfSubscription ==
  /\ [](/\ remoteSubscriptions[LocalKey] = 0
        /\ \A g \in Gens : subs[<<LocalKey, g>>] = NoSub
        /\ LocalKey \notin DOMAIN players
        /\ LocalKey \notin DOMAIN remotes
        /\ localPlayer.isLocal)
  /\ [][started => started']_vars

\* the page is logged in next to a peer with a subscription, and a frame has run
\* at a time at which the local Player, last seen at 0, is stale
C39_Witness ==
  /\ started
  /\ localPlayer.lastSeen = 0
  /\ now > STALE_TIMEOUT
  /\ \E path \in Addresses : subs[<<path, 1>>].closed /\ remoteSubscriptions[path] = 2

(***************************************************************************)
(* The zones of the local player: it is relocated next to the edge of the  *)
(* forge, on either side, and walks across it with a key held, while pA is *)
(* subscribed with its position, audio and zones channels and subscribers  *)
(* ask for the zones track of the page.                                    *)
(***************************************************************************)
\* well-formed zones messages
ZoneMessages == { JObj([zones |-> JArr(<<>>)]), JObj([zones |-> JArr(<<"forge">>)]) }

InitLocalZones ==
  /\ AtLoad
  /\ offered = [a \in Peers |-> IF a \in Addresses
                                THEN {POSITION_TRACK, AUDIO_TRACK, ZONES_TRACK} ELSE {}]
  /\ announcesLeft = [a \in Peers |-> IF a \in Addresses THEN 1 ELSE 0]
  /\ feed = NoFeed
  /\ codec = NoCodec
  /\ query = NoQuery

NextLocalZones ==
  \/ \E path \in Addresses : AnnounceActive(path)
  \/ \E path \in Addresses, g \in Gens, payload \in PrunePayloads : PositionRead(path, g, payload)
  \/ \E path \in Addresses, g \in Gens, payload \in ZoneMessages : ZonesRead(path, g, payload)
  \/ \E path \in Addresses, g \in Gens : AudioRead(path, g, At(OneFrame, 2))
  \/ StartSession
  \/ \E pt \in {<<286, 184>>, <<30, 184>>} : SetLocalPosition(pt[1], pt[2])
  \/ \E dx \in Directions, m \in KeySteps : KeyTick(dx, 0, m)
  \/ Request(ZONES_TRACK)

SpecLocalZones == InitLocalZones /\ [][NextLocalZones]_vars

\* C40: from login on the zones of the local player are zonesForPoint of its
\* position in every state, hence after every frame and every relocation; the
\* frame of a zones subscriber changes only in a step that changes the zones of
\* the local player; and after a step that changes them every playback path has
\* the gain the zone rule gives it.
C40_LocalZones ==
  /\ [](started => localPlayer.zones = zonesForPoint(localPlayer.x, localPlayer.y))
  /\ [][ /\ (\E t \in DOMAIN tracks :
               tracks[t].name = ZONES_TRACK /\ tracks'[t].frame # tracks[t].frame)
              => localPlayer'.zones # localPlayer.zones
         /\ (started /\ localPlayer'.zones # localPlayer.zones)
              => \A path \in DOMAIN remotes' : remotes'[path].gain = MixGain(path)' ]_vars

====
